---- MODULE Spec2Model ----
(***************************************************************************)
(* Alarms & Conditions wrapper of open62541pp: the Condition entity, the   *)
(* two-state transition callback registry with its four dispatch thunks,   *)
(* and the OnOffCondition convenience type.                                *)
(*                                                                         *)
(* The OPC UA runtime (open62541) is an external collaborator.  It is      *)
(* modelled by the UA_Server_* operators below from the interface the      *)
(* specification gives for it: a node store, a pre-commit interception     *)
(* hook per (condition, transition kind), and an event publisher.          *)
(***************************************************************************)
EXTENDS Integers, Sequences, FiniteSets, TLC

(***************************************************************************)
(* Bounds of the model.                                                    *)
(***************************************************************************)
MaxSlots == 1      \* number of registry slots that may be filled
MaxCommitted == 1  \* number of two-state sub-variables that may be true (dispatch spec)
MaxEvents == 2     \* number of condition events that may be published
MaxDeletes == 2    \* number of deletion requests that may be made for one node

(***************************************************************************)
(* Identifiers.                                                            *)
(***************************************************************************)
NullId == "null"                      \* NodeId{}
NodeIds == {"n1", "n2"}               \* ids the runtime can assign to condition nodes
Ids == NodeIds \cup {NullId}
Objs == {"o1", "o2"}                  \* C++ Condition values of the host program
Sources == {"src1"}                   \* condition source nodes
Sessions == {"s1"}                    \* session ids the runtime passes to a hook
NoSession == "nullptr"                \* sessionId == nullptr

Kinds == {"enteringEnabled", "enteringAcked", "enteringConfirmed", "enteringActive"}

\* The two-state variable whose Id property a transition kind makes true.
VarOf(kind) ==
    CASE kind = "enteringEnabled"   -> "EnabledState"
      [] kind = "enteringAcked"     -> "AckedState"
      [] kind = "enteringConfirmed" -> "ConfirmedState"
      [] kind = "enteringActive"    -> "ActiveState"

TwoStateVars == {"EnabledState", "AckedState", "ConfirmedState", "ActiveState"}

KindOf(var) == CHOOSE k \in Kinds : VarOf(k) = var

(***************************************************************************)
(* Status codes and throwIfBad.                                            *)
(***************************************************************************)
Good == "Good"                                  \* UA_STATUSCODE_GOOD
BadCodes == {"BadUserAccessDenied", "BadInternalError"}
VetoCodes == {"BadUserAccessDenied"}        \* non-good codes the modelled user callbacks return
BadNodeIdUnknown == "BadNodeIdUnknown"
BadTypeMismatch == "BadTypeMismatch"
StatusCodes == {Good, BadNodeIdUnknown, BadTypeMismatch} \cup BadCodes

isBad(status) == status # Good

(***************************************************************************)
(* User callbacks: std::function<UA_StatusCode(Session&, const NodeId&,    *)
(* bool)>.  A function value is empty, returns a status, or throws.        *)
(***************************************************************************)
EmptyFn == [tag |-> "empty", status |-> Good]
Returns(s) == [tag |-> "returns", status |-> s]
Throws == [tag |-> "throws", status |-> Good]
UserFns == {Returns(s) : s \in {Good} \cup VetoCodes} \cup {Throws}
Fns == UserFns \cup {EmptyFn}

(***************************************************************************)
(* Variant: a tagged value.                                                *)
(***************************************************************************)
VBool(b) == [type |-> "Boolean", b |-> b, s |-> "", n |-> 0]
VText(s) == [type |-> "LocalizedText", b |-> FALSE, s |-> s, n |-> 0]
VNum(n) == [type |-> "UInt16", b |-> FALSE, s |-> "", n |-> n]
VTime(t) == [type |-> "DateTime", b |-> FALSE, s |-> "", n |-> t]
VString(s) == [type |-> "String", b |-> FALSE, s |-> s, n |-> 0]
VUInt32(n) == [type |-> "UInt32", b |-> FALSE, s |-> "", n |-> n]

(***************************************************************************)
(* Registry: ctx.conditionCallbacks, a map from condition id to a record   *)
(* of four optional slots.                                                 *)
(***************************************************************************)
NoSlot == [set |-> FALSE, source |-> NullId, removeBranch |-> FALSE, cb |-> EmptyFn]
NoEntry == [present |-> FALSE,
            enteringEnabled |-> NoSlot, enteringAcked |-> NoSlot,
            enteringConfirmed |-> NoSlot, enteringActive |-> NoSlot]
NewEntry == [NoEntry EXCEPT !.present = TRUE]

\* ctx.conditionCallbacks.find(condition): the record, or NoEntry for nullptr.
getCallbacks(reg, condition) == reg[condition]

\* ctx.conditionCallbacks[id_]: the record, created empty when absent.
lookupOrCreate(reg, id) ==
    IF reg[id].present THEN reg ELSE [reg EXCEPT ![id] = NewEntry]

SlotCount(reg) ==
    Cardinality({p \in Ids \X Kinds : reg[p[1]].present /\ reg[p[1]][p[2]].set})

(***************************************************************************)
(* Runtime (external collaborator): the record of a condition node and its *)
(* display name.                                                           *)
(***************************************************************************)
AbsentNode == [exists |-> FALSE,
               EnabledState |-> FALSE, AckedState |-> FALSE,
               ConfirmedState |-> FALSE, ActiveState |-> FALSE,
               Retain |-> FALSE, Message |-> "", Time |-> 0, Severity |-> 0,
               DisplayName |-> ""]
FreshNode == [AbsentNode EXCEPT !.exists = TRUE]

NodeExists(ns, id) == id \in NodeIds /\ ns[id].exists

\* The display name the runtime gives the condition node it creates under id.
DisplayNameOf(id) ==
    CASE id = "n1" -> "Alarm1"
      [] id = "n2" -> "Alarm2"
      [] OTHER     -> ""

\* UA_Server_readDisplayName: on failure the output argument is left as it was.
UA_Server_readDisplayName(ns, id, dn) ==
    IF NodeExists(ns, id)
    THEN [status |-> Good, text |-> ns[id].DisplayName]
    ELSE [status |-> BadNodeIdUnknown, text |-> dn]

(***************************************************************************)
(* Dispatch thunks.  Each returns the outcome of one call by the runtime:  *)
(* a returned status or an exception leaving the thunk, the list of        *)
(* user-callback invocations it made, the diagnostic records it wrote to   *)
(* the server's logger, and the order (trace) in which it did these.       *)
(***************************************************************************)
\* Mutant: the session handle is always bound to the null id.
Invocation_nullSession(slot, sessionId) ==
    [cb |-> slot.cb,
     session |-> NullId,
     source |-> slot.source,
     removeBranch |-> slot.removeBranch]

\* The arguments of cbs->X->cb(sess, cbs->X->source, cbs->X->removeBranch), with
\* sess built from (sessionId != nullptr) ? *sessionId : NodeId{}.
Invocation(slot, sessionId) ==
    [cb |-> slot.cb,
     session |-> IF sessionId # NoSession THEN sessionId ELSE NullId,
     source |-> slot.source,
     removeBranch |-> slot.removeBranch]

\* Mutant: every non-good status of the callback is reported as one generic code.
invokeSlot_genericBad(slot, sessionId) ==
    IF slot.cb.tag \in {"throws", "empty"}
    THEN [exit |-> "exception", status |-> Good,
          invoked |-> <<Invocation(slot, sessionId)>>,
          log |-> <<>>, trace |-> <<"invoke">>]
    ELSE [exit |-> "return",
          status |-> IF isBad(slot.cb.status) THEN "BadInternalError" ELSE Good,
          invoked |-> <<Invocation(slot, sessionId)>>,
          log |-> <<>>, trace |-> <<"invoke">>]

\* cbs->X->cb(sess, cbs->X->source, cbs->X->removeBranch); calling an empty
\* std::function throws std::bad_function_call.
invokeSlot(slot, sessionId) ==
    IF slot.cb.tag \in {"throws", "empty"}
    THEN [exit |-> "exception", status |-> Good,
          invoked |-> <<Invocation(slot, sessionId)>>,
          log |-> <<>>, trace |-> <<"invoke">>]
    ELSE [exit |-> "return", status |-> slot.cb.status,
          invoked |-> <<Invocation(slot, sessionId)>>,
          log |-> <<>>, trace |-> <<"invoke">>]

ProceedOutcome ==
    [exit |-> "return", status |-> Good, invoked |-> <<>>, log |-> <<>>, trace |-> <<>>]

\* UA_LOG_INFO(logger, UA_LOGCATEGORY_USERLAND, "[A&C] <state>=true | condition=<name>")
LogLine(state, displayName) == [state |-> state, condition |-> displayName]

\* The head of each thunk: the display name is read into an empty text (the
\* status of the read is dropped) and the record is logged; `rest` is the
\* outcome of the statements that follow.
logTransition(ns, condition, state, rest) ==
    LET dn == UA_Server_readDisplayName(ns, condition, "")
    IN  [rest EXCEPT !.log = <<LogLine(state, dn.text)>> \o @,
                     !.trace = <<"log">> \o @]

\* Mutant: the slot is invoked without testing that its function is non-empty.
twoStateThunkEnabled_noEmptyCheck(ns, reg, condition, sessionId) ==
    LET cbs == getCallbacks(reg, condition) IN
    logTransition(ns, condition, "EnabledState",
        IF cbs.present /\ cbs.enteringEnabled.set
        THEN invokeSlot(cbs.enteringEnabled, sessionId)
        ELSE ProceedOutcome)

twoStateThunkEnabled(ns, reg, condition, sessionId) ==
    LET cbs == getCallbacks(reg, condition) IN
    logTransition(ns, condition, "EnabledState",
        IF cbs.present /\ cbs.enteringEnabled.set /\ cbs.enteringEnabled.cb.tag # "empty"
        THEN invokeSlot(cbs.enteringEnabled, sessionId)
        ELSE ProceedOutcome)

\* Mutant: the thunk reads the slot of another kind.
twoStateThunkAcked_confirmedSlot(ns, reg, condition, sessionId) ==
    LET cbs == getCallbacks(reg, condition) IN
    logTransition(ns, condition, "AckedState",
        IF cbs.present /\ cbs.enteringConfirmed.set /\ cbs.enteringConfirmed.cb.tag # "empty"
        THEN invokeSlot(cbs.enteringConfirmed, sessionId)
        ELSE ProceedOutcome)

twoStateThunkAcked(ns, reg, condition, sessionId) ==
    LET cbs == getCallbacks(reg, condition) IN
    logTransition(ns, condition, "AckedState",
        IF cbs.present /\ cbs.enteringAcked.set /\ cbs.enteringAcked.cb.tag # "empty"
        THEN invokeSlot(cbs.enteringAcked, sessionId)
        ELSE ProceedOutcome)

twoStateThunkConfirmed(ns, reg, condition, sessionId) ==
    LET cbs == getCallbacks(reg, condition) IN
    logTransition(ns, condition, "ConfirmedState",
        IF cbs.present /\ cbs.enteringConfirmed.set /\ cbs.enteringConfirmed.cb.tag # "empty"
        THEN invokeSlot(cbs.enteringConfirmed, sessionId)
        ELSE ProceedOutcome)

\* Mutant: the record is written only when a callback is going to be invoked.
twoStateThunkActive_logWhenRegistered(ns, reg, condition, sessionId) ==
    LET cbs == getCallbacks(reg, condition) IN
    IF cbs.present /\ cbs.enteringActive.set /\ cbs.enteringActive.cb.tag # "empty"
    THEN logTransition(ns, condition, "ActiveState",
                       invokeSlot(cbs.enteringActive, sessionId))
    ELSE ProceedOutcome

twoStateThunkActive(ns, reg, condition, sessionId) ==
    LET cbs == getCallbacks(reg, condition) IN
    logTransition(ns, condition, "ActiveState",
        IF cbs.present /\ cbs.enteringActive.set /\ cbs.enteringActive.cb.tag # "empty"
        THEN invokeSlot(cbs.enteringActive, sessionId)
        ELSE ProceedOutcome)

\* The function pointer a hook holds, called by the runtime.
callThunk(thunk, ns, reg, condition, sessionId) ==
    CASE thunk = "twoStateThunkEnabled"   -> twoStateThunkEnabled(ns, reg, condition, sessionId)
      [] thunk = "twoStateThunkAcked"     -> twoStateThunkAcked(ns, reg, condition, sessionId)
      [] thunk = "twoStateThunkConfirmed" -> twoStateThunkConfirmed(ns, reg, condition, sessionId)
      [] thunk = "twoStateThunkActive"    -> twoStateThunkActive(ns, reg, condition, sessionId)

(***************************************************************************)
(* State.                                                                  *)
(***************************************************************************)
VARIABLES
    nodes,      \* runtime address space: condition node per id, with its field values
    hooks,      \* runtime: interception hook installed per (condition, kind)
    events,     \* runtime: number of condition events published so far
    registry,   \* ctx.conditionCallbacks
    objs,       \* the Condition values of the host program: id_, owns_, source_
    host,       \* "running", or "terminated" once the process was aborted
    last,       \* observation of the most recent operation
    hist,       \* bookkeeping over the operations performed so far
    attrs,      \* runtime: the session attribute store of each session
    running     \* the user callback a dispatch has called and that has not returned yet

vars == <<nodes, hooks, events, registry, objs, host, last, hist, attrs, running>>

(***************************************************************************)
(* Runtime (external collaborator): node store.                            *)
(***************************************************************************)
FieldType(field) ==
    CASE field = "Retain"   -> "Boolean"
      [] field = "Message"  -> "LocalizedText"
      [] field = "Time"     -> "DateTime"
      [] field = "Severity" -> "UInt16"
      [] OTHER              -> "none"

WriteField(node, field, value) ==
    CASE field = "Retain"   -> [node EXCEPT !.Retain = value.b]
      [] field = "Message"  -> [node EXCEPT !.Message = value.s]
      [] field = "Time"     -> [node EXCEPT !.Time = value.n]
      [] field = "Severity" -> [node EXCEPT !.Severity = value.n]

WriteId(node, variable, b) ==
    CASE variable = "EnabledState"   -> [node EXCEPT !.EnabledState = b]
      [] variable = "AckedState"     -> [node EXCEPT !.AckedState = b]
      [] variable = "ConfirmedState" -> [node EXCEPT !.ConfirmedState = b]
      [] variable = "ActiveState"    -> [node EXCEPT !.ActiveState = b]

ReadId(node, variable) ==
    CASE variable = "EnabledState"   -> node.EnabledState
      [] variable = "AckedState"     -> node.AckedState
      [] variable = "ConfirmedState" -> node.ConfirmedState
      [] variable = "ActiveState"    -> node.ActiveState

NoHook == [installed |-> FALSE, thunk |-> "none", source |-> NullId, removeBranch |-> FALSE]

\* UA_Server_createCondition: allocates the node `newId` with the type's defaults.
UA_Server_createCondition(ns, newId, env) ==
    IF isBad(env) \/ newId \notin NodeIds \/ NodeExists(ns, newId)
    THEN [status |-> IF isBad(env) THEN env ELSE "BadInternalError", nodes |-> ns, id |-> NullId]
    ELSE [status |-> Good,
          nodes |-> [ns EXCEPT ![newId] =
                        [FreshNode EXCEPT !.DisplayName = DisplayNameOf(newId)]],
          id |-> newId]

\* UA_Server_setConditionField
UA_Server_setConditionField(ns, id, value, field, env) ==
    IF ~NodeExists(ns, id) THEN [status |-> BadNodeIdUnknown, nodes |-> ns]
    ELSE IF isBad(env) THEN [status |-> env, nodes |-> ns]
    ELSE IF FieldType(field) = "none" THEN [status |-> BadNodeIdUnknown, nodes |-> ns]
    ELSE IF FieldType(field) # value.type THEN [status |-> BadTypeMismatch, nodes |-> ns]
    ELSE [status |-> Good, nodes |-> [ns EXCEPT ![id] = WriteField(ns[id], field, value)]]

\* The runtime changes a two-state sub-variable: when it becomes true and a
\* hook is installed for the kind, the hook is called first and decides
\* whether the new value is committed.
RuntimeSetTwoState(ns, hk, reg, id, variable, b, sessionId) ==
    LET kind == KindOf(variable)
        hook == hk[id][kind]
        out  == IF b /\ hook.installed
                THEN callThunk(hook.thunk, ns, reg, id, sessionId)
                ELSE ProceedOutcome
        seen == [i \in 1..Len(out.invoked) |->
                    [call |-> out.invoked[i], seen |-> ReadId(ns[id], variable)]]
    IN  IF out.exit = "exception"
        THEN [exit |-> "exception", status |-> Good, nodes |-> ns, invoked |-> seen,
              log |-> out.log, trace |-> out.trace]
        ELSE IF isBad(out.status)
        THEN [exit |-> "return", status |-> out.status, nodes |-> ns, invoked |-> seen,
              log |-> out.log, trace |-> out.trace]
        ELSE [exit |-> "return", status |-> Good,
              nodes |-> [ns EXCEPT ![id] = WriteId(ns[id], variable, b)],
              invoked |-> seen, log |-> out.log, trace |-> out.trace]

\* UA_Server_setConditionVariableFieldProperty
UA_Server_setConditionVariableFieldProperty(ns, hk, reg, id, value, variable, property, env) ==
    LET fail(s) == [exit |-> "return", status |-> s, nodes |-> ns, invoked |-> <<>>] IN
    IF ~NodeExists(ns, id) THEN fail(BadNodeIdUnknown)
    ELSE IF isBad(env) THEN fail(env)
    ELSE IF variable \notin TwoStateVars \/ property # "Id" THEN fail(BadNodeIdUnknown)
    ELSE IF value.type # "Boolean" THEN fail(BadTypeMismatch)
    ELSE RuntimeSetTwoState(ns, hk, reg, id, variable, value.b, NoSession)

\* UA_Server_triggerConditionEvent
UA_Server_triggerConditionEvent(ns, ev, id, conditionSource, env) ==
    IF ~NodeExists(ns, id) THEN [status |-> BadNodeIdUnknown, events |-> ev]
    ELSE IF isBad(env) THEN [status |-> env, events |-> ev]
    ELSE [status |-> Good, events |-> ev + 1]

\* UA_Server_setConditionTwoStateVariableCallback
UA_Server_setConditionTwoStateVariableCallback(ns, hk, id, conditionSource, removeBranch, callback, type, env) ==
    IF ~NodeExists(ns, id) THEN [status |-> BadNodeIdUnknown, hooks |-> hk]
    ELSE IF isBad(env) THEN [status |-> env, hooks |-> hk]
    ELSE [status |-> Good,
          hooks |-> [hk EXCEPT ![id][type] =
                        [installed |-> TRUE, thunk |-> callback,
                         source |-> conditionSource, removeBranch |-> removeBranch]]]

\* UA_Server_deleteNode: the node and everything the runtime holds for it go away.
UA_Server_deleteNode(ns, hk, id) ==
    IF ~NodeExists(ns, id) THEN [status |-> BadNodeIdUnknown, nodes |-> ns, hooks |-> hk]
    ELSE [status |-> Good,
          nodes |-> [ns EXCEPT ![id] = AbsentNode],
          hooks |-> [hk EXCEPT ![id] = [k \in Kinds |-> NoHook]]]

(***************************************************************************)
(* Condition entity: setField, setVariableField, trigger.  A call is run   *)
(* on a world w = [exit, status, nodes, events, invoked, calls]; exit is   *)
(* "ok", "BadStatus" (throwIfBad threw) or "exception" (an exception of a  *)
(* user callback is travelling up the stack).                              *)
(***************************************************************************)
SetFieldCall(field, value) ==
    [api |-> "setField", name |-> field, property |-> "", value |-> value]
SetVariableFieldCall(variable, property, value) ==
    [api |-> "setVariableField", name |-> variable, property |-> property, value |-> value]
TriggerCall(source) ==
    [api |-> "trigger", name |-> source, property |-> "", value |-> VBool(FALSE)]

World(ns, ev) ==
    [exit |-> "ok", status |-> Good, nodes |-> ns, events |-> ev,
     invoked |-> <<>>, calls |-> <<>>]

\* Mutant: a bad status is not turned into an exception.
throwIfBad_swallow(w, status) == w

throwIfBad(w, status) ==
    IF isBad(status) THEN [w EXCEPT !.exit = "BadStatus", !.status = status] ELSE w

setField(w, id, field, value, env) ==
    LET r == UA_Server_setConditionField(w.nodes, id, value, field, env)
        w1 == [w EXCEPT !.nodes = r.nodes,
                        !.calls = Append(w.calls, SetFieldCall(field, value))]
    IN  throwIfBad(w1, r.status)

setVariableField(w, hk, reg, id, variable, property, value, env) ==
    LET r == UA_Server_setConditionVariableFieldProperty(
                 w.nodes, hk, reg, id, value, variable, property, env)
        w1 == [w EXCEPT !.nodes = r.nodes,
                        !.invoked = w.invoked \o r.invoked,
                        !.calls = Append(w.calls,
                                         SetVariableFieldCall(variable, property, value))]
    IN  IF r.exit = "exception" THEN [w1 EXCEPT !.exit = "exception"]
        ELSE throwIfBad(w1, r.status)

trigger(w, id, conditionSource, env) ==
    LET r == UA_Server_triggerConditionEvent(w.nodes, w.events, id, conditionSource, env)
        w1 == [w EXCEPT !.events = r.events,
                        !.calls = Append(w.calls, TriggerCall(conditionSource))]
    IN  throwIfBad(w1, r.status)

\* One statement of a method body.
doCall(w, hk, reg, id, c, env) ==
    CASE c.api = "setField" -> setField(w, id, c.name, c.value, env)
      [] c.api = "setVariableField" ->
            setVariableField(w, hk, reg, id, c.name, c.property, c.value, env)
      [] c.api = "trigger" -> trigger(w, id, c.name, env)

\* The statements of a method body in sequence; the first one that throws
\* ends the body.  The runtime fails the failAt-th call (0: none) with failStatus.
\* (Each step's world is bound as a value before the next step uses it.)
RECURSIVE runCalls(_, _, _, _, _, _, _, _)
runCalls(w, hk, reg, id, plan, i, failAt, failStatus) ==
    IF i > Len(plan) \/ w.exit # "ok" THEN w
    ELSE CHOOSE r \in { runCalls(w1, hk, reg, id, plan, i + 1, failAt, failStatus) :
                            w1 \in { doCall(w, hk, reg, id, plan[i],
                                            IF i = failAt THEN failStatus ELSE Good) } } : TRUE

(***************************************************************************)
(* OnOffCondition: constructor body and setActive.                         *)
(***************************************************************************)
DefaultMessage(active) == IF active THEN "Alarm active" ELSE "Alarm inactive"

\* Mutant: the default severity is written whatever severity is asked for.
constructorCalls_fixedSeverity(initialSeverity) ==
    << SetVariableFieldCall("EnabledState", "Id", VBool(TRUE)),
       SetFieldCall("Severity", VNum(400)),
       SetFieldCall("Message", VText("Alarm inactive")),
       SetFieldCall("Retain", VBool(FALSE)) >>

\* OnOffCondition::OnOffCondition, the statements after the base constructor.
constructorCalls(initialSeverity) ==
    << SetVariableFieldCall("EnabledState", "Id", VBool(TRUE)),
       SetFieldCall("Severity", VNum(initialSeverity)),
       SetFieldCall("Message", VText("Alarm inactive")),
       SetFieldCall("Retain", VBool(FALSE)) >>

\* Mutant: the explicit message is ignored.
setActiveMessage_ignoreExplicit(active, message) ==
    DefaultMessage(active)

setActiveMessage(active, message) ==
    IF message # "" THEN message ELSE DefaultMessage(active)

\* Mutant: the acknowledgment and confirmation resets are missing.
setActiveCalls_noReset(source, active, message, now) ==
    << SetFieldCall("Message", VText(setActiveMessage(active, message))),
       SetFieldCall("Time", VTime(now)),
       SetFieldCall("Retain", VBool(active)),
       SetVariableFieldCall("ActiveState", "Id", VBool(active)),
       TriggerCall(source) >>

\* Mutant: only the acknowledgment is reset.
setActiveCalls_ackedOnly(source, active, message, now) ==
    << SetFieldCall("Message", VText(setActiveMessage(active, message))),
       SetFieldCall("Time", VTime(now)),
       SetFieldCall("Retain", VBool(active)),
       SetVariableFieldCall("ActiveState", "Id", VBool(active)) >>
    \o (IF ~active
        THEN << SetVariableFieldCall("AckedState", "Id", VBool(FALSE)) >>
        ELSE << >>)
    \o << TriggerCall(source) >>

\* Mutant: the event is published only when the alarm becomes active.
setActiveCalls_noTriggerOnInactive(source, active, message, now) ==
    << SetFieldCall("Message", VText(setActiveMessage(active, message))),
       SetFieldCall("Time", VTime(now)),
       SetFieldCall("Retain", VBool(active)),
       SetVariableFieldCall("ActiveState", "Id", VBool(active)) >>
    \o (IF ~active
        THEN << SetVariableFieldCall("AckedState", "Id", VBool(FALSE)),
                SetVariableFieldCall("ConfirmedState", "Id", VBool(FALSE)) >>
        ELSE << TriggerCall(source) >>)

\* Mutant: the event is published before the two-state variables are written.
setActiveCalls_triggerEarly(source, active, message, now) ==
    << SetFieldCall("Message", VText(setActiveMessage(active, message))),
       SetFieldCall("Time", VTime(now)),
       SetFieldCall("Retain", VBool(active)),
       TriggerCall(source),
       SetVariableFieldCall("ActiveState", "Id", VBool(active)) >>
    \o (IF ~active
        THEN << SetVariableFieldCall("AckedState", "Id", VBool(FALSE)),
                SetVariableFieldCall("ConfirmedState", "Id", VBool(FALSE)) >>
        ELSE << >>)

\* OnOffCondition::setActive
setActiveCalls(source, active, message, now) ==
    << SetFieldCall("Message", VText(setActiveMessage(active, message))),
       SetFieldCall("Time", VTime(now)),
       SetFieldCall("Retain", VBool(active)),
       SetVariableFieldCall("ActiveState", "Id", VBool(active)) >>
    \o (IF ~active
        THEN << SetVariableFieldCall("AckedState", "Id", VBool(FALSE)),
                SetVariableFieldCall("ConfirmedState", "Id", VBool(FALSE)) >>
        ELSE << >>)
    \o << TriggerCall(source) >>

(***************************************************************************)
(* Callbacks that re-enter the Condition API.  Such a callback calls       *)
(* setField, setVariableField, trigger or setActive on the condition it is *)
(* invoked for and then returns a status; its tag names the call it makes. *)
(***************************************************************************)
ReentryBodies == {"setField", "setVariableField", "trigger", "setActive"}
Reenters(body, s) == [tag |-> body, status |-> s]
ReentrantFns == {Reenters(b, s) : b \in ReentryBodies, s \in {Good} \cup VetoCodes}

\* The API calls the body of a callback makes before it returns.
bodyCalls(cb, source) ==
    CASE cb.tag = "setField" -> << SetFieldCall("Retain", VBool(TRUE)) >>
      [] cb.tag = "setVariableField" ->
            << SetVariableFieldCall("ActiveState", "Id", VBool(TRUE)) >>
      [] cb.tag = "trigger" -> << TriggerCall(source) >>
      [] cb.tag = "setActive" -> setActiveCalls(source, FALSE, "", 1)
      [] OTHER -> << >>

\* Mutant: the API waits for a lock that is held while a callback runs.
reenter_blocked(w, hk, reg, id, plan) ==
    IF plan = << >> THEN w ELSE [w EXCEPT !.exit = "deadlock"]

\* setField, setVariableField and trigger take no lock and keep no state:
\* called from inside a callback they run as they do anywhere else.
reenter(w, hk, reg, id, plan) ==
    runCalls(w, hk, reg, id, plan, 1, 0, Good)

\* What the runtime makes of a dispatch `out` whose callback body left the
\* world `w`: the new value is committed when the callback returned good.
commitReentrant(out, w, id, variable, seen) ==
    LET exit == IF w.exit = "deadlock" THEN "deadlock"
                ELSE IF out.exit = "exception" \/ w.exit # "ok" THEN "exception"
                ELSE "return"
        commit == exit = "return" /\ ~isBad(out.status)
    IN  [exit |-> exit,
         status |-> IF exit = "return" THEN out.status ELSE Good,
         nodes |-> IF commit
                   THEN [w.nodes EXCEPT ![id] = WriteId(w.nodes[id], variable, TRUE)]
                   ELSE w.nodes,
         events |-> w.events,
         invoked |-> seen \o w.invoked, calls |-> w.calls,
         nestedExit |-> w.exit, nestedStatus |-> w.status]

\* The runtime sets a two-state sub-variable to true; the callback its hook
\* reaches runs its body, API calls included, before it returns its status.
RuntimeSetTwoStateReentrant(ns, ev, hk, reg, id, variable, sessionId, source) ==
    LET kind == KindOf(variable)
        hook == hk[id][kind]
        out  == IF hook.installed
                THEN callThunk(hook.thunk, ns, reg, id, sessionId)
                ELSE ProceedOutcome
        seen == [i \in 1..Len(out.invoked) |->
                    [call |-> out.invoked[i], seen |-> ReadId(ns[id], variable)]]
        cb   == IF out.invoked = << >> THEN EmptyFn ELSE out.invoked[1].cb
    IN  commitReentrant(out, reenter(World(ns, ev), hk, reg, id, bodyCalls(cb, source)),
                        id, variable, seen)

(***************************************************************************)
(* Access control: AccessControlAllTokens.  The session attribute store    *)
(* and the default access control are external collaborators.  A method    *)
(* runs on w = [store, calls]: the session's attributes and the calls made. *)
(***************************************************************************)
AttrKeys == {"userName", "certSize", "issuedTokenSize", "issuedEncAlgo",
             "identityType", "isAdmin"}
NoAttr == [type |-> "none", b |-> FALSE, s |-> "", n |-> 0]
EmptyStore == [k \in AttrKeys |-> NoAttr]

\* The user identity token of an ActivateSession request, as decodedData<T>()
\* sees it; "Other" is a token that decodes to none of the four types.
TokenTypes == {"Anonymous", "UserName", "X509", "Issued", "Other"}
UserNames == {"admin", "guest", "Admin"}
CertSizes == {0, 2}
Token(type, userName, size, encAlg) ==
    [type |-> type, userName |-> userName, size |-> size, encAlg |-> encAlg]
NoToken == Token("none", "", 0, "")
Tokens ==
    {Token("Anonymous", "", 0, ""), Token("Other", "", 0, "")}
    \cup {Token("UserName", u, 0, "") : u \in UserNames}
    \cup {Token("X509", "", n, "") : n \in CertSizes}
    \cup {Token("Issued", "", 1, "alg")}

SetSessionAttributeCall(key, value) ==
    [api |-> "setSessionAttribute", key |-> key, value |-> value]
DelegateCall(name) ==
    [api |-> name, key |-> "", value |-> NoAttr]

\* Session::setSessionAttribute
setSessionAttribute(w, key, value) ==
    [w EXCEPT !.store[key] = value,
              !.calls = Append(@, SetSessionAttributeCall(key, value))]

\* Session::getSessionAttribute: the lookup of a missing key fails.
getSessionAttribute(store, key) ==
    IF store[key] = NoAttr
    THEN [exit |-> "BadStatus", value |-> NoAttr]
    ELSE [exit |-> "ok", value |-> store[key]]

\* AccessControlDefault::activateSession: its verdict is an input.
AccessControlDefault_activateSession(store, token, verdict) == verdict

\* Mutant: only a user name token can make an administrator.
annotate_userNameOnly(w0, token) ==
    LET identityType ==
            CASE token.type = "Anonymous" -> "Anonymous"
              [] token.type = "UserName"  -> "UserName"
              [] token.type = "X509"      -> "X509"
              [] token.type = "Issued"    -> "Issued"
              [] OTHER                    -> "Unknown"
        isAdmin == token.type = "UserName" /\ token.userName = "admin"
        w2 == setSessionAttribute(w0, "identityType", VString(identityType))
    IN  setSessionAttribute(w2, "isAdmin", VBool(isAdmin))

\* AccessControlAllTokens::activateSession, up to the delegation: the token
\* is probed for the four types in turn, the facts of its type and then
\* identityType and isAdmin are stored.
annotate(w0, token) ==
    LET identityType ==
            CASE token.type = "Anonymous" -> "Anonymous"
              [] token.type = "UserName"  -> "UserName"
              [] token.type = "X509"      -> "X509"
              [] token.type = "Issued"    -> "Issued"
              [] OTHER                    -> "Unknown"
        isAdmin ==
            CASE token.type = "Anonymous" -> FALSE
              [] token.type = "UserName"  -> (token.userName = "admin")
              [] token.type = "X509"      -> TRUE
              [] token.type = "Issued"    -> TRUE
              [] OTHER                    -> FALSE
        w1 ==
            CASE token.type = "UserName" ->
                    setSessionAttribute(w0, "userName", VString(token.userName))
              [] token.type = "X509" ->
                    setSessionAttribute(w0, "certSize", VUInt32(token.size))
              [] token.type = "Issued" ->
                    setSessionAttribute(
                        setSessionAttribute(w0, "issuedTokenSize", VUInt32(token.size)),
                        "issuedEncAlgo", VString(token.encAlg))
              [] OTHER -> w0
        w2 == setSessionAttribute(w1, "identityType", VString(identityType))
    IN  setSessionAttribute(w2, "isAdmin", VBool(isAdmin))

\* Mutant: the default access control is asked first and a session it
\* rejects is not annotated.
activateSession_delegateFirst(store, token, verdict) ==
    LET w0 == [store |-> store,
               calls |-> << DelegateCall("AccessControlDefault::activateSession") >>]
        status == AccessControlDefault_activateSession(store, token, verdict)
        w == IF isBad(status) THEN w0 ELSE annotate(w0, token)
    IN  [store |-> w.store, calls |-> w.calls, status |-> status]

\* AccessControlAllTokens::activateSession
activateSession(store, token, verdict) ==
    LET w == annotate([store |-> store, calls |-> <<>>], token)
    IN  [store |-> w.store,
         calls |-> Append(w.calls, DelegateCall("AccessControlDefault::activateSession")),
         status |-> AccessControlDefault_activateSession(w.store, token, verdict)]

ReadOnly == {"CurrentRead"}
ReadWrite == {"CurrentRead", "CurrentWrite"}

\* AccessControlAllTokens::getUserAccessLevel: both lookups are made outside
\* any try block, and scalar<T>() throws on a value of another type.
getUserAccessLevel(store) ==
    LET identity == getSessionAttribute(store, "identityType")
        admin == getSessionAttribute(store, "isAdmin")
    IN  IF identity.exit # "ok" \/ identity.value.type # "String"
        THEN [exit |-> "BadStatus", level |-> {}]
        ELSE IF admin.exit # "ok" \/ admin.value.type # "Boolean"
        THEN [exit |-> "BadStatus", level |-> {}]
        ELSE [exit |-> "ok", level |-> IF admin.value.b THEN ReadWrite ELSE ReadOnly]

\* AccessControlAllTokens::closeSession: failed lookups are caught; the
\* session and its attributes end with AccessControlDefault::closeSession.
closeSession(store) ==
    [store |-> EmptyStore,
     calls |-> << DelegateCall("AccessControlDefault::closeSession") >>]

(***************************************************************************)
(* Observation of an operation and bookkeeping.                            *)
(***************************************************************************)
NoObj == [state |-> "none", id |-> NullId, owns |-> FALSE, onoff |-> FALSE, source_ |-> NullId]

NoObs == [op |-> "none", obj |-> "none", id |-> NullId, kind |-> "none",
          exit |-> "ok", status |-> Good, invoked |-> <<>>, calls |-> <<>>,
          active |-> FALSE, message |-> "", cb |-> EmptyFn, session |-> NoSession,
          hooked |-> FALSE, hasEntry |-> FALSE, slot |-> NoSlot,
          pre |-> [AckedState |-> FALSE, ConfirmedState |-> FALSE, ActiveState |-> FALSE,
                   Retain |-> FALSE],
          preValue |-> FALSE, events0 |-> 0, wasActivated |-> FALSE,
          severity |-> 0,
          owns |-> FALSE, deletes |-> <<>>, delStatus |-> Good, returned |-> NullId,
          borrowed |-> FALSE, existed |-> FALSE,
          token |-> NoToken, verdict |-> Good, level |-> {}, annotated |-> FALSE,
          nestedExit |-> "ok", nestedStatus |-> Good,
          log |-> <<>>, trace |-> <<>>, failAt |-> 0]

NoHist == [activated |-> FALSE, setActiveOk |-> 0, triggerOk |-> 0, changes |-> 0,
           latest |-> [i \in Ids |-> [k \in Kinds |-> EmptyFn]],
           overwritten |-> [i \in Ids |-> [k \in Kinds |-> FALSE]],
           borrowed |-> {},
           latestSource |-> [i \in Ids |-> [k \in Kinds |-> NullId]],
           latestRemoveBranch |-> [i \in Ids |-> [k \in Kinds |-> FALSE]],
           rearmed |-> [i \in Ids |-> [k \in Kinds |-> FALSE]],
           deleteRequests |-> [i \in Ids |-> 0]]

\* Bookkeeping of a registration call: the callback, source node and
\* remove-branch flag passed most recently for (id, kind), whether a different
\* callback was registered there before (overwritten), and whether an earlier
\* registration there had another source node and another flag (rearmed).
Registered(h, id, kind, source, removeBranch, cb) ==
    [h EXCEPT !.latest[id][kind] = cb,
              !.overwritten[id][kind] = @ \/ (h.latest[id][kind] \notin {EmptyFn, cb}),
              !.latestSource[id][kind] = source,
              !.latestRemoveBranch[id][kind] = removeBranch,
              !.rearmed[id][kind] =
                  @ \/ (/\ h.latestSource[id][kind] \notin {NullId, source}
                        /\ h.latestRemoveBranch[id][kind] # removeBranch)]

\* Bookkeeping of node deletions: how often the deletion of the node under
\* an id was requested since the node was created.
Created(h, id) == [h EXCEPT !.deleteRequests[id] = 0]
DeletionsRequested(h, deletes) ==
    [h EXCEPT !.deleteRequests =
        [i \in Ids |-> @[i] + Cardinality({j \in 1..Len(deletes) : deletes[j] = i})]]

\* An exception that reaches the runtime's C frames either unwinds through
\* them to the caller of the runtime or aborts the process.
Outcomes(exit) ==
    IF exit = "exception" THEN {"exception", "terminated"} ELSE {exit}
HostAfter(exit) == IF exit = "terminated" THEN "terminated" ELSE "running"

PreNode(id) == IF id \in NodeIds THEN nodes[id] ELSE AbsentNode
\* What an observation keeps of the node as it was before the operation.
PreIds(id) == [AckedState |-> PreNode(id).AckedState,
               ConfirmedState |-> PreNode(id).ConfirmedState,
               ActiveState |-> PreNode(id).ActiveState,
               Retain |-> PreNode(id).Retain]

(***************************************************************************)
(* Condition values: wrapping, copying, release and destruction.  A value  *)
(* is [state, id, owns, onoff, source_]; the destructor's result lists the *)
(* node deletions it asked the runtime for.                                *)
(***************************************************************************)
\* Condition::Condition(Server&, const NodeId&, UseExisting)
useExisting(existingConditionId) ==
    [state |-> "alive", id |-> existingConditionId, owns |-> FALSE,
     onoff |-> FALSE, source_ |-> NullId]

\* Mutant: a copy always owns the node.
copyCondition_owning(obj) == [obj EXCEPT !.owns = TRUE]

\* Condition(const Condition&) = default
copyCondition(obj) == obj

\* Condition(Condition&&) noexcept = default: connection_ and owns_ are copied,
\* id_ is moved, which leaves the null id in the value moved from.
moveCondition(obj) ==
    [to |-> obj, from |-> [obj EXCEPT !.id = NullId]]

\* Mutant: release() hands out the id and keeps it.
release_keepId(obj) ==
    [returned |-> obj.id, obj |-> obj]

\* Condition::release: return std::exchange(id_, {})
release(obj) ==
    [returned |-> obj.id, obj |-> [obj EXCEPT !.id = NullId]]

\* Mutant: the destructor deletes the node whether or not the value owns it.
destructor_ignoreOwns(obj, ns, hk, reg) ==
    IF obj.id # NullId
    THEN LET d == UA_Server_deleteNode(ns, hk, obj.id)
         IN  [exit |-> "ok", deletes |-> <<obj.id>>, status |-> d.status,
              nodes |-> d.nodes, hooks |-> d.hooks, registry |-> reg]
    ELSE [exit |-> "ok", deletes |-> <<>>, status |-> Good,
          nodes |-> ns, hooks |-> hk, registry |-> reg]

\* Mutant: the destructor asks for the deletion a second time.
destructor_twice(obj, ns, hk, reg) ==
    IF obj.owns /\ obj.id # NullId
    THEN LET d == UA_Server_deleteNode(ns, hk, obj.id)
         IN  [exit |-> "ok", deletes |-> <<obj.id, obj.id>>, status |-> BadNodeIdUnknown,
              nodes |-> d.nodes, hooks |-> d.hooks, registry |-> reg]
    ELSE [exit |-> "ok", deletes |-> <<>>, status |-> Good,
          nodes |-> ns, hooks |-> hk, registry |-> reg]

\* Mutant: the destructor reports a failed deletion by throwing.
destructor_throwIfBad(obj, ns, hk, reg) ==
    IF obj.owns /\ obj.id # NullId
    THEN LET d == UA_Server_deleteNode(ns, hk, obj.id)
         IN  [exit |-> IF isBad(d.status) THEN "BadStatus" ELSE "ok",
              deletes |-> <<obj.id>>, status |-> d.status,
              nodes |-> d.nodes, hooks |-> d.hooks, registry |-> reg]
    ELSE [exit |-> "ok", deletes |-> <<>>, status |-> Good,
          nodes |-> ns, hooks |-> hk, registry |-> reg]

\* Mutant: the destructor also drops the registry entry of its condition.
destructor_eraseEntry(obj, ns, hk, reg) ==
    IF obj.owns /\ obj.id # NullId
    THEN LET d == UA_Server_deleteNode(ns, hk, obj.id)
         IN  [exit |-> "ok", deletes |-> <<obj.id>>, status |-> d.status,
              nodes |-> d.nodes, hooks |-> d.hooks,
              registry |-> [reg EXCEPT ![obj.id] = NoEntry]]
    ELSE [exit |-> "ok", deletes |-> <<>>, status |-> Good,
          nodes |-> ns, hooks |-> hk, registry |-> reg]

\* Condition::~Condition: the status of the deletion is not looked at.
destructor(obj, ns, hk, reg) ==
    IF obj.owns /\ obj.id # NullId
    THEN LET d == UA_Server_deleteNode(ns, hk, obj.id)
         IN  [exit |-> "ok", deletes |-> <<obj.id>>, status |-> d.status,
              nodes |-> d.nodes, hooks |-> d.hooks, registry |-> reg]
    ELSE [exit |-> "ok", deletes |-> <<>>, status |-> Good,
          nodes |-> ns, hooks |-> hk, registry |-> reg]

\* No callback is running.
NoCall == [active |-> FALSE, id |-> NullId, kind |-> "none", session |-> NoSession,
           slot |-> NoSlot]

Init ==
    /\ nodes = [n \in NodeIds |-> AbsentNode]
    /\ hooks = [n \in NodeIds |-> [k \in Kinds |-> NoHook]]
    /\ events = 0
    /\ registry = [i \in Ids |-> NoEntry]
    /\ objs = [o \in Objs |-> NoObj]
    /\ host = "running"
    /\ last = NoObs
    /\ hist = NoHist
    /\ attrs = [s \in Sessions |-> EmptyStore]
    /\ running = NoCall

(***************************************************************************)
(* Condition::Condition (creating constructor).                            *)
(***************************************************************************)
CreateCondition(o, newId, env) ==
    /\ host = "running"
    /\ objs[o].state = "none"
    /\ ~NodeExists(nodes, newId)
    /\ LET r == UA_Server_createCondition(nodes, newId, env) IN
       /\ nodes' = r.nodes
       /\ objs' = IF isBad(r.status) THEN objs
                  ELSE [objs EXCEPT ![o] = [state |-> "alive", id |-> r.id, owns |-> TRUE,
                                            onoff |-> FALSE, source_ |-> NullId]]
       /\ last' = [NoObs EXCEPT !.op = "Condition", !.obj = o, !.id = r.id,
                                !.exit = IF isBad(r.status) THEN "BadStatus" ELSE "ok",
                                !.status = r.status]
       /\ hist' = IF isBad(r.status) THEN hist ELSE Created(hist, r.id)
    /\ UNCHANGED <<running, attrs, hooks, events, registry, host>>

(***************************************************************************)
(* OnOffCondition::OnOffCondition.  When a default-field write throws, the *)
(* already constructed Condition base is destroyed during unwinding.       *)
(***************************************************************************)
NewOnOffCondition(o, newId, source, initialSeverity, env, failAt, failStatus) ==
    /\ host = "running"
    /\ objs[o].state = "none"
    /\ ~NodeExists(nodes, newId)
    /\ \E r \in { UA_Server_createCondition(nodes, newId, env) } :
       \E w \in { runCalls(World(r.nodes, events), hooks, registry, r.id,
                            constructorCalls(initialSeverity), 1, failAt, failStatus) } :
       LET base == [state |-> "alive", id |-> r.id, owns |-> TRUE,
                    onoff |-> FALSE, source_ |-> NullId]
           d == destructor(base, w.nodes, hooks, registry)
       IN
       \E x \in Outcomes(w.exit) :
       IF isBad(r.status)
       THEN /\ last' = [NoObs EXCEPT !.op = "OnOffCondition", !.obj = o,
                                     !.exit = "BadStatus", !.status = r.status]
            /\ UNCHANGED <<running, attrs, nodes, hooks, events, registry, objs, host, hist>>
       ELSE /\ nodes' = IF x = "ok" THEN w.nodes ELSE d.nodes
            /\ hooks' = IF x = "ok" THEN hooks ELSE d.hooks
            /\ registry' = IF x = "ok" THEN registry ELSE d.registry
            /\ events' = w.events
            /\ objs' = IF x = "ok"
                       THEN [objs EXCEPT ![o] = [state |-> "alive", id |-> r.id,
                                                 owns |-> TRUE, onoff |-> TRUE,
                                                 source_ |-> source]]
                       ELSE objs
            /\ host' = HostAfter(x)
            /\ last' = [NoObs EXCEPT !.op = "OnOffCondition", !.obj = o, !.id = r.id, !.events0 = events,
                                     !.exit = x, !.status = w.status,
                                     !.invoked = w.invoked, !.calls = w.calls,
                                     !.severity = initialSeverity,
                                     !.owns = TRUE,
                                     !.deletes = IF x = "ok" THEN <<>> ELSE d.deletes,
                                     !.delStatus = IF x = "ok" THEN Good ELSE d.status]
            /\ hist' = DeletionsRequested(Created(hist, r.id),
                                          IF x = "ok" THEN <<>> ELSE d.deletes)
    /\ UNCHANGED <<running, attrs>>

(***************************************************************************)
(* Wrapping an existing id, copying, releasing and destroying a value.     *)
(***************************************************************************)
WrapExisting(o, existingConditionId) ==
    /\ host = "running"
    /\ objs[o].state = "none"
    /\ objs' = [objs EXCEPT ![o] = useExisting(existingConditionId)]
    /\ last' = [NoObs EXCEPT !.op = "UseExisting", !.obj = o, !.id = existingConditionId,
                             !.borrowed = TRUE,
                             !.existed = NodeExists(nodes, existingConditionId)]
    /\ hist' = [hist EXCEPT !.borrowed = @ \cup {o}]
    /\ UNCHANGED <<running, attrs, nodes, hooks, events, registry, host>>

CopyCondition(o, o2) ==
    /\ host = "running"
    /\ objs[o].state = "alive"
    /\ objs[o2].state = "none"
    /\ objs' = [objs EXCEPT ![o2] = copyCondition(objs[o])]
    /\ last' = [NoObs EXCEPT !.op = "copy", !.obj = o2, !.id = objs[o].id,
                             !.owns = objs[o].owns,
                             !.borrowed = (o \in hist.borrowed),
                             !.existed = NodeExists(nodes, objs[o].id)]
    /\ hist' = [hist EXCEPT !.borrowed = IF o \in @ THEN @ \cup {o2} ELSE @]
    /\ UNCHANGED <<running, attrs, nodes, hooks, events, registry, host>>

MoveCondition(o, o2) ==
    /\ host = "running"
    /\ objs[o].state = "alive"
    /\ objs[o2].state = "none"
    /\ LET r == moveCondition(objs[o]) IN
       /\ objs' = [objs EXCEPT ![o2] = r.to, ![o] = r.from]
       /\ last' = [NoObs EXCEPT !.op = "move", !.obj = o2, !.id = objs[o].id,
                                !.owns = objs[o].owns,
                                !.borrowed = (o \in hist.borrowed),
                                !.existed = NodeExists(nodes, objs[o].id)]
    /\ hist' = [hist EXCEPT !.borrowed = IF o \in @ THEN @ \cup {o2} ELSE @]
    /\ UNCHANGED <<running, attrs, nodes, hooks, events, registry, host>>

Release(o) ==
    /\ host = "running"
    /\ objs[o].state = "alive"
    /\ LET r == release(objs[o]) IN
       /\ objs' = [objs EXCEPT ![o] = r.obj]
       /\ last' = [NoObs EXCEPT !.op = "release", !.obj = o, !.id = objs[o].id,
                                !.owns = objs[o].owns, !.returned = r.returned,
                                !.borrowed = (o \in hist.borrowed),
                                !.existed = NodeExists(nodes, objs[o].id)]
    /\ UNCHANGED <<running, attrs, nodes, hooks, events, registry, host, hist>>

Destroy(o) ==
    /\ host = "running"
    /\ objs[o].state = "alive"
    /\ LET d == destructor(objs[o], nodes, hooks, registry) IN
       /\ \A j \in 1..Len(d.deletes) : hist.deleteRequests[d.deletes[j]] < MaxDeletes
       /\ nodes' = d.nodes
       /\ hooks' = d.hooks
       /\ registry' = d.registry
       /\ objs' = [objs EXCEPT ![o] = NoObj]
       /\ last' = [NoObs EXCEPT !.op = "destroy", !.obj = o, !.id = objs[o].id,
                                !.owns = objs[o].owns, !.exit = d.exit,
                                !.deletes = d.deletes, !.delStatus = d.status,
                                !.borrowed = (o \in hist.borrowed),
                                !.existed = NodeExists(nodes, objs[o].id)]
       /\ hist' = DeletionsRequested([hist EXCEPT !.borrowed = @ \ {o}], d.deletes)
    /\ UNCHANGED <<running, attrs, events, host>>

(***************************************************************************)
(* The runtime's calls of the access control plugin.                       *)
(***************************************************************************)
Annotated(store) == store["identityType"] # NoAttr /\ store["isAdmin"] # NoAttr

ActivateSession(session, token, verdict) ==
    /\ host = "running"
    /\ LET r == activateSession(attrs[session], token, verdict) IN
       /\ attrs' = [attrs EXCEPT ![session] = r.store]
       /\ last' = [NoObs EXCEPT !.op = "activateSession", !.session = session,
                                !.token = token, !.verdict = verdict,
                                !.status = r.status, !.calls = r.calls,
                                !.annotated = Annotated(attrs[session])]
    /\ UNCHANGED <<running, nodes, hooks, events, registry, objs, host, hist>>

GetUserAccessLevel(session) ==
    /\ host = "running"
    /\ LET r == getUserAccessLevel(attrs[session]) IN
       /\ last' = [NoObs EXCEPT !.op = "getUserAccessLevel", !.session = session,
                                !.exit = r.exit, !.level = r.level,
                                !.annotated = Annotated(attrs[session])]
    /\ UNCHANGED <<running, nodes, hooks, events, registry, objs, host, hist, attrs>>

CloseSession(session) ==
    /\ host = "running"
    /\ LET r == closeSession(attrs[session]) IN
       /\ attrs' = [attrs EXCEPT ![session] = r.store]
       /\ last' = [NoObs EXCEPT !.op = "closeSession", !.session = session,
                                !.calls = r.calls,
                                !.annotated = Annotated(attrs[session])]
    /\ UNCHANGED <<running, nodes, hooks, events, registry, objs, host, hist>>

(***************************************************************************)
(* Direct use of the Condition API by the host program.                    *)
(***************************************************************************)
SetField(o, field, value, env) ==
    /\ host = "running"
    /\ objs[o].state = "alive"
    /\ LET id == objs[o].id
           w == setField(World(nodes, events), id, field, value, env)
       IN
       /\ nodes' = w.nodes
       /\ last' = [NoObs EXCEPT !.op = "setField", !.obj = o, !.id = id, !.events0 = events,
                                !.exit = w.exit, !.status = w.status,
                                !.calls = w.calls]
    /\ UNCHANGED <<running, attrs, hooks, events, registry, objs, host, hist>>

SetVariableField(o, variable, property, value, env) ==
    /\ host = "running"
    /\ objs[o].state = "alive"
    /\ \E w \in { setVariableField(World(nodes, events), hooks, registry, objs[o].id,
                                    variable, property, value, env) } :
       LET id == objs[o].id IN
       \E x \in Outcomes(w.exit) :
       /\ nodes' = w.nodes
       /\ host' = HostAfter(x)
       /\ last' = [NoObs EXCEPT !.op = "setVariableField", !.obj = o, !.id = id, !.events0 = events,
                                !.exit = x, !.status = w.status,
                                !.invoked = w.invoked, !.calls = w.calls]
    /\ UNCHANGED <<running, attrs, hooks, events, registry, objs, hist>>

Trigger(o, conditionSource, env) ==
    /\ host = "running"
    /\ objs[o].state = "alive"
    /\ events < MaxEvents
    /\ LET id == objs[o].id
           w == trigger(World(nodes, events), id, conditionSource, env)
       IN
       /\ events' = w.events
       /\ last' = [NoObs EXCEPT !.op = "trigger", !.obj = o, !.id = id, !.events0 = events,
                                !.exit = w.exit, !.status = w.status,
                                !.calls = w.calls]
       /\ hist' = [hist EXCEPT !.triggerOk = IF w.exit = "ok" THEN @ + 1 ELSE @]
    /\ UNCHANGED <<running, attrs, nodes, hooks, registry, objs, host>>

(***************************************************************************)
(* OnOffCondition::setActive.                                              *)
(***************************************************************************)
SetActive(o, source, active, message, now, failAt, failStatus) ==
    /\ host = "running"
    /\ objs[o].state = "alive"
    /\ objs[o].onoff
    /\ events < MaxEvents
    /\ hist.changes < MaxEvents
    /\ \E w \in { runCalls(World(nodes, events), hooks, registry, objs[o].id,
                            setActiveCalls(source, active, message, now),
                            1, failAt, failStatus) } :
       LET id == objs[o].id
           changed == PreNode(id).ActiveState # (IF id \in NodeIds THEN w.nodes[id].ActiveState
                                                 ELSE FALSE)
       IN
       \E x \in Outcomes(w.exit) :
       /\ nodes' = w.nodes
       /\ events' = w.events
       /\ host' = HostAfter(x)
       /\ last' = [NoObs EXCEPT !.op = "setActive", !.obj = o, !.id = id, !.events0 = events,
                                !.exit = x, !.status = w.status,
                                !.invoked = w.invoked, !.calls = w.calls,
                                !.active = active, !.message = message,
                                !.pre = PreIds(id), !.wasActivated = hist.activated,
                                !.failAt = failAt]
       /\ hist' = [hist EXCEPT !.activated = IF active THEN TRUE
                                             ELSE IF x = "ok" THEN FALSE ELSE @,
                               !.setActiveOk = IF x = "ok" THEN @ + 1 ELSE @,
                               !.changes = IF changed THEN @ + 1 ELSE @]
    /\ UNCHANGED <<running, attrs, hooks, registry, objs>>

(***************************************************************************)
(* Registration: Condition::setTwoStateCallback and the four on* methods.  *)
(***************************************************************************)
setTwoStateCallback(ns, hk, id, conditionSource, removeBranch, callback, type, env) ==
    LET r == UA_Server_setConditionTwoStateVariableCallback(
                 ns, hk, id, conditionSource, removeBranch, callback, type, env)
    IN  [exit |-> IF isBad(r.status) THEN "BadStatus" ELSE "ok",
         status |-> r.status, hooks |-> r.hooks]

\* auto& slot = cbs->X.emplace(); slot.source = ...; slot.removeBranch = ...; slot.cb = ...
emplaceSlot(source, removeBranch, cb) ==
    [set |-> TRUE, source |-> source, removeBranch |-> removeBranch, cb |-> cb]

RegObs(op, o, id, kind, cb, r) ==
    [NoObs EXCEPT !.op = op, !.obj = o, !.id = id, !.kind = kind, !.cb = cb,
                  !.exit = r.exit, !.status = r.status]

\* Mutant: the slot is stored only after the runtime installed the hook.
onEnabled_installFirst(o, source, cb, removeBranch, env) ==
    /\ host = "running"
    /\ objs[o].state = "alive"
    /\ LET id == objs[o].id
           reg == lookupOrCreate(registry, id)
           r == setTwoStateCallback(nodes, hooks, id, source, removeBranch,
                                    "twoStateThunkEnabled", "enteringEnabled", env)
       IN
       /\ registry' = IF r.exit = "ok"
                      THEN [reg EXCEPT ![id].enteringEnabled =
                                           emplaceSlot(source, removeBranch, cb)]
                      ELSE registry
       /\ hooks' = r.hooks
       /\ last' = RegObs("onEnabled", o, id, "enteringEnabled", cb, r)
       /\ hist' = Registered(hist, id, "enteringEnabled", source, removeBranch, cb)
    /\ UNCHANGED <<running, attrs, nodes, events, objs, host>>

onEnabled(o, source, cb, removeBranch, env) ==
    /\ host = "running"
    /\ objs[o].state = "alive"
    /\ LET id == objs[o].id
           reg == lookupOrCreate(registry, id)
           r == setTwoStateCallback(nodes, hooks, id, source, removeBranch,
                                    "twoStateThunkEnabled", "enteringEnabled", env)
       IN
       /\ registry' = [reg EXCEPT ![id].enteringEnabled = emplaceSlot(source, removeBranch, cb)]
       /\ hooks' = r.hooks
       /\ last' = RegObs("onEnabled", o, id, "enteringEnabled", cb, r)
       /\ hist' = Registered(hist, id, "enteringEnabled", source, removeBranch, cb)
    /\ UNCHANGED <<running, attrs, nodes, events, objs, host>>

onAboutToBeAcked(o, source, cb, removeBranch, env) ==
    /\ host = "running"
    /\ objs[o].state = "alive"
    /\ LET id == objs[o].id
           reg == lookupOrCreate(registry, id)
           r == setTwoStateCallback(nodes, hooks, id, source, removeBranch,
                                    "twoStateThunkAcked", "enteringAcked", env)
       IN
       /\ registry' = [reg EXCEPT ![id].enteringAcked = emplaceSlot(source, removeBranch, cb)]
       /\ hooks' = r.hooks
       /\ last' = RegObs("onAboutToBeAcked", o, id, "enteringAcked", cb, r)
       /\ hist' = Registered(hist, id, "enteringAcked", source, removeBranch, cb)
    /\ UNCHANGED <<running, attrs, nodes, events, objs, host>>

\* Mutant: a slot that is already filled is kept.
onAboutToBeConfirmed_keepFirst(o, source, cb, removeBranch, env) ==
    /\ host = "running"
    /\ objs[o].state = "alive"
    /\ LET id == objs[o].id
           reg == lookupOrCreate(registry, id)
           r == setTwoStateCallback(nodes, hooks, id, source, removeBranch,
                                    "twoStateThunkConfirmed", "enteringConfirmed", env)
       IN
       /\ registry' = IF reg[id].enteringConfirmed.set THEN reg
                      ELSE [reg EXCEPT ![id].enteringConfirmed =
                                           emplaceSlot(source, removeBranch, cb)]
       /\ hooks' = r.hooks
       /\ last' = RegObs("onAboutToBeConfirmed", o, id, "enteringConfirmed", cb, r)
       /\ hist' = Registered(hist, id, "enteringConfirmed", source, removeBranch, cb)
    /\ UNCHANGED <<running, attrs, nodes, events, objs, host>>

onAboutToBeConfirmed(o, source, cb, removeBranch, env) ==
    /\ host = "running"
    /\ objs[o].state = "alive"
    /\ LET id == objs[o].id
           reg == lookupOrCreate(registry, id)
           r == setTwoStateCallback(nodes, hooks, id, source, removeBranch,
                                    "twoStateThunkConfirmed", "enteringConfirmed", env)
       IN
       /\ registry' = [reg EXCEPT ![id].enteringConfirmed =
                                      emplaceSlot(source, removeBranch, cb)]
       /\ hooks' = r.hooks
       /\ last' = RegObs("onAboutToBeConfirmed", o, id, "enteringConfirmed", cb, r)
       /\ hist' = Registered(hist, id, "enteringConfirmed", source, removeBranch, cb)
    /\ UNCHANGED <<running, attrs, nodes, events, objs, host>>

\* Mutant: the registration starts the record of the condition afresh.
onActive_freshRecord(o, source, cb, removeBranch, env) ==
    /\ host = "running"
    /\ objs[o].state = "alive"
    /\ LET id == objs[o].id
           r == setTwoStateCallback(nodes, hooks, id, source, removeBranch,
                                    "twoStateThunkActive", "enteringActive", env)
       IN
       /\ registry' = [registry EXCEPT ![id] =
                          [NewEntry EXCEPT !.enteringActive =
                                               emplaceSlot(source, removeBranch, cb)]]
       /\ hooks' = r.hooks
       /\ last' = RegObs("onActive", o, id, "enteringActive", cb, r)
       /\ hist' = Registered(hist, id, "enteringActive", source, removeBranch, cb)
    /\ UNCHANGED <<running, attrs, nodes, events, objs, host>>

onActive(o, source, cb, removeBranch, env) ==
    /\ host = "running"
    /\ objs[o].state = "alive"
    /\ LET id == objs[o].id
           reg == lookupOrCreate(registry, id)
           r == setTwoStateCallback(nodes, hooks, id, source, removeBranch,
                                    "twoStateThunkActive", "enteringActive", env)
       IN
       /\ registry' = [reg EXCEPT ![id].enteringActive = emplaceSlot(source, removeBranch, cb)]
       /\ hooks' = r.hooks
       /\ last' = RegObs("onActive", o, id, "enteringActive", cb, r)
       /\ hist' = Registered(hist, id, "enteringActive", source, removeBranch, cb)
    /\ UNCHANGED <<running, attrs, nodes, events, objs, host>>

\* OnOffCondition convenience overloads: the source is the stored source_.
OnOff_onEnabled(o, cb, removeBranch, env) ==
    objs[o].onoff /\ onEnabled(o, objs[o].source_, cb, removeBranch, env)
OnOff_onAboutToBeAcked(o, cb, removeBranch, env) ==
    objs[o].onoff /\ onAboutToBeAcked(o, objs[o].source_, cb, removeBranch, env)
OnOff_onAboutToBeConfirmed(o, cb, removeBranch, env) ==
    objs[o].onoff /\ onAboutToBeConfirmed(o, objs[o].source_, cb, removeBranch, env)
OnOff_onActive(o, cb, removeBranch, env) ==
    objs[o].onoff /\ onActive(o, objs[o].source_, cb, removeBranch, env)

(***************************************************************************)
(* Runtime-driven steps.                                                   *)
(***************************************************************************)
\* A transition attempt: the runtime is asked (by a client method call or by
\* server logic) to make the two-state sub-variable of `kind` true.
Transition(n, kind, sessionId) ==
    /\ host = "running"
    /\ NodeExists(nodes, n)
    /\ \E r \in { RuntimeSetTwoState(nodes, hooks, registry, n, VarOf(kind), TRUE, sessionId) } :
       \E x \in Outcomes(IF r.exit = "return" THEN "ok" ELSE r.exit) :
       /\ nodes' = r.nodes
       /\ host' = HostAfter(x)
       /\ last' = [NoObs EXCEPT !.op = "transition", !.id = n, !.kind = kind,
                                !.exit = x, !.status = r.status, !.invoked = r.invoked,
                                !.log = r.log, !.trace = r.trace,
                                !.session = sessionId,
                                !.hooked = hooks[n][kind].installed, !.hasEntry = registry[n].present,
                                !.slot = registry[n][kind],
                                !.preValue = ReadId(nodes[n], VarOf(kind))]
    /\ UNCHANGED <<running, attrs, hooks, events, registry, objs, hist>>

\* A transition attempt whose callback may re-enter the Condition API.
TransitionReentrant(n, kind, sessionId, source) ==
    /\ host = "running"
    /\ NodeExists(nodes, n)
    /\ events < MaxEvents
    /\ \E r \in { RuntimeSetTwoStateReentrant(nodes, events, hooks, registry, n,
                                               VarOf(kind), sessionId, source) } :
       \E x \in Outcomes(IF r.exit = "return" THEN "ok" ELSE r.exit) :
       /\ nodes' = r.nodes
       /\ events' = r.events
       /\ host' = HostAfter(x)
       /\ last' = [NoObs EXCEPT !.op = "reentrantTransition", !.id = n, !.kind = kind,
                                !.exit = x, !.status = r.status, !.invoked = r.invoked,
                                !.calls = r.calls, !.session = sessionId,
                                !.hooked = hooks[n][kind].installed,
                                !.hasEntry = registry[n].present,
                                !.slot = registry[n][kind],
                                !.preValue = ReadId(nodes[n], VarOf(kind)),
                                !.events0 = events,
                                !.nestedExit = r.nestedExit, !.nestedStatus = r.nestedStatus]
    /\ UNCHANGED <<running, hooks, registry, objs, hist, attrs>>

\* The runtime calls a dispatch entry point it holds with a condition id
\* (the hooked condition or another node, such as a branch of it).
DispatchEntryPoint(thunk, kind, condition, sessionId) ==
    /\ host = "running"
    /\ \E n \in NodeIds : hooks[n][kind].installed /\ hooks[n][kind].thunk = thunk
    /\ LET out == callThunk(thunk, nodes, registry, condition, sessionId)
       IN
       \E x \in Outcomes(IF out.exit = "return" THEN "ok" ELSE out.exit) :
       /\ host' = HostAfter(x)
       /\ last' = [NoObs EXCEPT !.op = "dispatch", !.id = condition, !.kind = kind,
                                !.exit = x, !.status = out.status,
                                !.invoked = [i \in 1..Len(out.invoked) |->
                                                [call |-> out.invoked[i],
                                                 seen |-> ReadId(nodes[condition], VarOf(kind))]],
                                !.log = out.log, !.trace = out.trace,
                                !.session = sessionId, !.hooked = TRUE, !.hasEntry = registry[condition].present,
                                !.slot = registry[condition][kind],
                                !.preValue = ReadId(nodes[condition], VarOf(kind))]
    /\ UNCHANGED <<running, attrs, nodes, hooks, events, registry, objs, hist>>

(***************************************************************************)
(* A dispatch in two steps, for what happens while the user callback runs. *)
(* The thunk calls the std::function that lies in the registry slot, in    *)
(* place: it takes no copy of it and holds no lock.                        *)
(***************************************************************************)
\* The runtime calls the hook for a transition attempt; the thunk has logged,
\* found the slot and called its callback, which is now running.
BeginDispatch(n, kind, sessionId) ==
    /\ host = "running"
    /\ ~running.active
    /\ NodeExists(nodes, n)
    /\ hooks[n][kind].installed
    /\ \E out \in { callThunk(hooks[n][kind].thunk, nodes, registry, n, sessionId) } :
       /\ out.invoked # << >>
       /\ running' = [active |-> TRUE, id |-> n, kind |-> kind, session |-> sessionId,
                      slot |-> registry[n][kind]]
       /\ last' = [NoObs EXCEPT !.op = "beginDispatch", !.id = n, !.kind = kind,
                                !.session = sessionId, !.hooked = TRUE,
                                !.hasEntry = registry[n].present,
                                !.slot = registry[n][kind],
                                !.log = out.log, !.trace = out.trace,
                                !.preValue = ReadId(nodes[n], VarOf(kind))]
    /\ UNCHANGED <<nodes, hooks, events, registry, objs, host, hist, attrs>>

\* What the rest of a running callback can do.  When the slot it was called
\* from is as it was, it returns or throws as invokeSlot says.  When the slot
\* was emplaced again in the meantime, the std::function that is executing has
\* been destroyed under it (undefined behaviour): it may still return its
\* status, or the process is aborted.
ReturnOutcomes(slot, current, sessionId) ==
    LET exit == invokeSlot(slot, sessionId).exit IN
    IF current = slot
    THEN Outcomes(IF exit = "return" THEN "ok" ELSE exit)
    ELSE {"ok", "terminated"}

\* The running callback returns to the thunk, which returns its status to the
\* runtime; the runtime commits the new value when the status is good.
EndDispatch ==
    /\ host = "running"
    /\ running.active
    /\ LET n == running.id
           kind == running.kind
           asCalled == [registry EXCEPT ![n][kind] = running.slot]
       IN
       \E r \in { RuntimeSetTwoState(nodes, hooks, asCalled, n, VarOf(kind), TRUE,
                                      running.session) } :
       \E x \in ReturnOutcomes(running.slot, registry[n][kind], running.session) :
       /\ nodes' = IF x = "ok" THEN r.nodes ELSE nodes
       /\ host' = HostAfter(x)
       /\ last' = [NoObs EXCEPT !.op = "endDispatch", !.id = n, !.kind = kind,
                                !.exit = x, !.status = r.status, !.invoked = r.invoked,
                                !.log = r.log, !.trace = r.trace,
                                !.session = running.session, !.hooked = TRUE,
                                !.hasEntry = TRUE, !.slot = running.slot,
                                !.preValue = ReadId(nodes[n], VarOf(kind))]
    /\ running' = NoCall
    /\ UNCHANGED <<hooks, events, registry, objs, hist, attrs>>

(***************************************************************************)
(* Specification of the registry and dispatch.                             *)
(***************************************************************************)
EnvStatuses == {Good, "BadInternalError"}
SessionArgs == Sessions \cup {NoSession}
RemoveBranchArgs == {FALSE}

SlotBound(o, kind) ==
    registry[objs[o].id][kind].set \/ SlotCount(registry) < MaxSlots

CommittedCount ==
    Cardinality({p \in NodeIds \X TwoStateVars : ReadId(nodes[p[1]], p[2])})

\* The id the runtime assigns to the next node it creates.
NodeOrder == <<"n1", "n2">>
NextFreeId ==
    IF \A n \in NodeIds : nodes[n].exists THEN NullId
    ELSE NodeOrder[CHOOSE i \in 1..Len(NodeOrder) :
                      /\ ~nodes[NodeOrder[i]].exists
                      /\ \A j \in 1..(i - 1) : nodes[NodeOrder[j]].exists]

DispatchObjs == {"o1"}

NextDispatch ==
    \/ \E o \in DispatchObjs, env \in EnvStatuses :
          CreateCondition(o, NextFreeId, env)
    \/ \E o \in DispatchObjs, s \in Sources, cb \in Fns, rb \in RemoveBranchArgs, env \in EnvStatuses :
          SlotBound(o, "enteringEnabled") /\ onEnabled(o, s, cb, rb, env)
    \/ \E o \in DispatchObjs, s \in Sources, cb \in Fns, rb \in RemoveBranchArgs, env \in EnvStatuses :
          SlotBound(o, "enteringAcked") /\ onAboutToBeAcked(o, s, cb, rb, env)
    \/ \E o \in DispatchObjs, s \in Sources, cb \in Fns, rb \in RemoveBranchArgs, env \in EnvStatuses :
          SlotBound(o, "enteringConfirmed") /\ onAboutToBeConfirmed(o, s, cb, rb, env)
    \/ \E o \in DispatchObjs, s \in Sources, cb \in Fns, rb \in RemoveBranchArgs, env \in EnvStatuses :
          SlotBound(o, "enteringActive") /\ onActive(o, s, cb, rb, env)
    \/ \E n \in NodeIds, k \in Kinds, sid \in Sessions :
          /\ ReadId(nodes[n], VarOf(k)) \/ CommittedCount < MaxCommitted
          /\ Transition(n, k, sid)
    \/ \E k \in Kinds, n \in NodeIds, sid \in SessionArgs :
          /\ ~hooks[n][k].installed
          /\ \E m \in NodeIds : hooks[m][k].installed
          /\ DispatchEntryPoint(hooks[CHOOSE m \in NodeIds : hooks[m][k].installed][k].thunk,
                                k, n, sid)

SpecDispatch == Init /\ [][NextDispatch]_vars

(***************************************************************************)
(* Specification of the lifetime of Condition values: two values that are  *)
(* created, wrapped, copied, used, released and destroyed.                 *)
(***************************************************************************)
LifeObjs == {"o1", "o2"}
LifeFns == {Returns(Good)}

NextLifecycle ==
    \/ \E o \in LifeObjs, s \in Sources, env \in EnvStatuses, failAt \in {0, 3} :
          NewOnOffCondition(o, NextFreeId, s, 400, env, failAt, "BadInternalError")
    \/ \E o \in LifeObjs, id \in Ids :
          WrapExisting(o, id)
    \/ \E o \in LifeObjs, o2 \in LifeObjs :
          CopyCondition(o, o2)
    \/ \E o \in LifeObjs, o2 \in LifeObjs :
          MoveCondition(o, o2)
    \/ \E o \in LifeObjs :
          Release(o)
    \/ \E o \in LifeObjs :
          Destroy(o)
    \/ \E o \in LifeObjs :
          SetField(o, "Retain", VBool(FALSE), Good)
    \/ \E o \in LifeObjs :
          SetVariableField(o, "AckedState", "Id", VBool(FALSE), Good)
    \/ \E o \in LifeObjs, s \in Sources :
          Trigger(o, s, Good)
    \/ \E o \in LifeObjs, s \in Sources, cb \in LifeFns, rb \in RemoveBranchArgs :
          SlotBound(o, "enteringEnabled") /\ onEnabled(o, s, cb, rb, Good)

SpecLifecycle == Init /\ [][NextLifecycle]_vars

(***************************************************************************)
(* Specification of re-entrant callbacks: an On/Off condition whose        *)
(* acknowledge callback calls back into the API of the condition.          *)
(***************************************************************************)
ReentryObjs == {"o1"}
PlainFns == {Returns(s) : s \in {Good} \cup VetoCodes}
ReentryKinds == {"enteringAcked", "enteringActive"}

NextReentry ==
    \/ \E o \in ReentryObjs, s \in Sources :
          NewOnOffCondition(o, NextFreeId, s, 400, Good, 0, Good)
    \/ \E o \in ReentryObjs, s \in Sources, cb \in ReentrantFns, rb \in RemoveBranchArgs :
          onAboutToBeAcked(o, s, cb, rb, Good)
    \/ \E o \in ReentryObjs, s \in Sources, cb \in PlainFns, rb \in RemoveBranchArgs :
          onActive(o, s, cb, rb, Good)
    \/ \E n \in NodeIds, k \in ReentryKinds, sid \in Sessions, s \in Sources :
          TransitionReentrant(n, k, sid, s)

SpecReentry == Init /\ [][NextReentry]_vars

(***************************************************************************)
(* Specification of the access control plugin.                             *)
(***************************************************************************)
Verdicts == {Good, "BadUserAccessDenied", "BadIdentityTokenInvalid"}

NextAccess ==
    \/ \E s \in Sessions, t \in Tokens, v \in Verdicts : ActivateSession(s, t, v)
    \/ \E s \in Sessions : GetUserAccessLevel(s)
    \/ \E s \in Sessions : CloseSession(s)

SpecAccess == Init /\ [][NextAccess]_vars

(***************************************************************************)
(* Specification of the arguments a callback is invoked with: one          *)
(* condition whose callbacks are registered again with other source nodes  *)
(* and flags, and transitions the runtime raises with or without a session. *)
(***************************************************************************)
ArgObjs == {"o1"}
ArgSources == {"src1", "src2"}
ArgFns == {Returns(Good)}
ArgKinds == {"enteringEnabled", "enteringActive"}

NextArgs ==
    \/ \E o \in ArgObjs :
          CreateCondition(o, NextFreeId, Good)
    \/ \E o \in ArgObjs, s \in ArgSources, cb \in ArgFns, rb \in BOOLEAN :
          onEnabled(o, s, cb, rb, Good)
    \/ \E o \in ArgObjs, s \in ArgSources, cb \in ArgFns, rb \in BOOLEAN :
          onActive(o, s, cb, rb, Good)
    \/ \E n \in NodeIds, k \in ArgKinds, sid \in SessionArgs :
          Transition(n, k, sid)

SpecArgs == Init /\ [][NextArgs]_vars

(***************************************************************************)
(* Specification of the independence of slots: two conditions, each of     *)
(* which registers for the four kinds a callback, source node and flag     *)
(* that no other (condition, kind) uses, so that an invocation tells which *)
(* slot it was read from.                                                  *)
(***************************************************************************)
SlotObjs == {"o1", "o2"}

SlotSource(o) == IF o = "o1" THEN "src1" ELSE "src2"
SlotFn(kind) ==
    IF kind \in {"enteringEnabled", "enteringConfirmed"}
    THEN Returns(Good) ELSE Returns("BadUserAccessDenied")
SlotFlag(kind) == kind \in {"enteringConfirmed", "enteringActive"}

NextSlots ==
    \/ \E o \in SlotObjs :
          CreateCondition(o, NextFreeId, Good)
    \/ \E o \in SlotObjs :
          onEnabled(o, SlotSource(o), SlotFn("enteringEnabled"),
                    SlotFlag("enteringEnabled"), Good)
    \/ \E o \in SlotObjs :
          onAboutToBeAcked(o, SlotSource(o), SlotFn("enteringAcked"),
                           SlotFlag("enteringAcked"), Good)
    \/ \E o \in SlotObjs :
          onAboutToBeConfirmed(o, SlotSource(o), SlotFn("enteringConfirmed"),
                               SlotFlag("enteringConfirmed"), Good)
    \/ \E o \in SlotObjs :
          onActive(o, SlotSource(o), SlotFn("enteringActive"),
                   SlotFlag("enteringActive"), Good)
    \/ \E n \in NodeIds, k \in Kinds, sid \in Sessions :
          /\ ReadId(nodes[n], VarOf(k)) \/ CommittedCount < MaxCommitted
          /\ Transition(n, k, sid)
    \/ \E k \in Kinds, n \in NodeIds, sid \in Sessions :
          /\ ~hooks[n][k].installed
          /\ \E m \in NodeIds : hooks[m][k].installed
          /\ DispatchEntryPoint(hooks[CHOOSE m \in NodeIds : hooks[m][k].installed][k].thunk,
                                k, n, sid)

SpecSlots == Init /\ [][NextSlots]_vars

(***************************************************************************)
(* Specification of registrations made while a callback is running: by the *)
(* callback itself, which may use the Condition API, or by another thread  *)
(* of the host.  Neither the registration methods nor the thunks           *)
(* synchronise, so a registration step can fall between the begin and the  *)
(* end of a dispatch.                                                      *)
(***************************************************************************)
ConcObjs == {"o1"}
ConcFns == {Returns(s) : s \in {Good} \cup VetoCodes}
ConcKinds == {"enteringEnabled", "enteringActive"}

NextConcurrent ==
    \/ \E o \in ConcObjs :
          CreateCondition(o, NextFreeId, Good)
    \/ \E o \in ConcObjs, s \in Sources, cb \in ConcFns, rb \in RemoveBranchArgs :
          onEnabled(o, s, cb, rb, Good)
    \/ \E o \in ConcObjs, s \in Sources, cb \in ConcFns, rb \in RemoveBranchArgs :
          onActive(o, s, cb, rb, Good)
    \/ \E n \in NodeIds, k \in ConcKinds, sid \in Sessions :
          BeginDispatch(n, k, sid)
    \/ EndDispatch

SpecConcurrent == Init /\ [][NextConcurrent]_vars

(***************************************************************************)
(* Specification of the On/Off condition.                                  *)
(***************************************************************************)
OnOffObjs == {"o1"}
Severities == {400, 65535}
Messages == {"", "custom"}
Times == {1}
FieldWrites == { <<"Retain", VBool(TRUE)>>, <<"Retain", VBool(FALSE)>>,
                 <<"Severity", VBool(TRUE)>> }
OnOffVars == {"ActiveState", "AckedState", "ConfirmedState"}
\* Where the runtime may refuse a call of setActive's sequence of n calls:
\* nowhere (0) or at any one of the calls.
FailPoints(n) == 0..n
ClientKinds == {"enteringAcked", "enteringConfirmed"}

NextOnOff ==
    \/ \E o \in OnOffObjs, s \in Sources, sev \in Severities, env \in EnvStatuses,
          failAt \in 0..4 :
          NewOnOffCondition(o, NextFreeId, s, sev, env, failAt, "BadInternalError")
    \/ \E o \in OnOffObjs, s \in Sources, active \in BOOLEAN, m \in Messages, now \in Times :
          \E failAt \in FailPoints(Len(setActiveCalls(s, active, m, now))) :
          SetActive(o, s, active, m, now, failAt, "BadInternalError")
    \/ \E o \in OnOffObjs, fw \in FieldWrites, env \in EnvStatuses :
          SetField(o, fw[1], fw[2], env)
    \/ \E o \in OnOffObjs, v \in OnOffVars, b \in BOOLEAN :
          SetVariableField(o, v, "Id", VBool(b), Good)
    \/ \E n \in NodeIds, k \in ClientKinds, sid \in Sessions :
          Transition(n, k, sid)

SpecOnOff == Init /\ [][NextOnOff]_vars

(***************************************************************************)
(* Properties of registration and dispatch (checked under SpecDispatch).   *)
(***************************************************************************)
RegOps == {"onEnabled", "onAboutToBeAcked", "onAboutToBeConfirmed", "onActive"}
DispatchOps == {"transition", "dispatch"}
InvokedFns == {last.invoked[i].call.cb : i \in 1..Len(last.invoked)}

\* C1: a transition attempt on a condition and kind for which a callback is
\* registered (hook installed, non-empty function passed most recently) invokes
\* exactly that callback exactly once, and at the time of the invocation the
\* sub-variable still has its pre-transition value; it can be true afterwards
\* only when it was true before or the callback returned good.
C1_CallbackOnceBeforeCommit ==
    (last.op = "transition" /\ last.hooked /\ hist.latest[last.id][last.kind] \in UserFns)
    => /\ Len(last.invoked) = 1
       /\ last.invoked[1].call.cb = hist.latest[last.id][last.kind]
       /\ last.invoked[1].seen = last.preValue
       /\ (ReadId(nodes[last.id], VarOf(last.kind)) /\ ~last.preValue)
              => (last.exit = "ok" /\ last.status = Good)

C1_Witness ==
    /\ last.op = "transition" /\ last.hooked
    /\ hist.latest[last.id][last.kind] = Returns(Good)
    /\ Len(last.invoked) = 1
    /\ ~last.preValue /\ ~last.invoked[1].seen
    /\ ReadId(nodes[last.id], VarOf(last.kind))

\* C2: a registration always stores the callback it is given, also when a
\* callback was stored for the same condition and kind before, and every later
\* dispatch of that kind on that condition invokes no callback other than
\* the one registered most recently.
C2_ReRegistrationOverwrites ==
    /\ last.op \in RegOps =>
          /\ registry[last.id].present
          /\ registry[last.id][last.kind].set
          /\ registry[last.id][last.kind].cb = last.cb
    /\ last.op \in DispatchOps => InvokedFns \subseteq {hist.latest[last.id][last.kind]}

C2_Witness ==
    /\ last.op = "transition"
    /\ hist.overwritten[last.id][last.kind]
    /\ Len(last.invoked) = 1
    /\ last.invoked[1].call.cb = hist.latest[last.id][last.kind]

\* C3: a dispatch for a condition without registry entry, or whose slot for
\* the kind is unset or holds an empty function, returns good and invokes no
\* user callback; a transition attempt that meets it is committed.
C3_AbsentCallbackProceeds ==
    (last.op \in DispatchOps /\ (~last.hasEntry \/ ~last.slot.set \/ last.slot.cb = EmptyFn))
    => /\ last.exit = "ok"
       /\ last.status = Good
       /\ last.invoked = << >>
       /\ last.op = "transition" => ReadId(nodes[last.id], VarOf(last.kind))

C3_Witness ==
    /\ last.op = "transition" /\ last.hooked
    /\ last.hasEntry /\ last.slot.set /\ last.slot.cb = EmptyFn
    /\ ~last.preValue
    /\ last.status = Good /\ last.invoked = << >>
    /\ ReadId(nodes[last.id], VarOf(last.kind))

\* C3 (second case): witness of a dispatch for a condition without registry entry.
C3_WitnessNoEntry ==
    last.op = "dispatch" /\ ~last.hasEntry /\ last.status = Good

\* C4: when the dispatch invoked a callback that returned a status, the dispatch
\* returns exactly that status to the runtime, good or not.
C4_StatusVerbatim ==
    (last.op \in DispatchOps /\ Len(last.invoked) = 1
        /\ last.invoked[1].call.cb.tag = "returns")
    => /\ last.exit = "ok"
       /\ last.status = last.invoked[1].call.cb.status

C4_Witness ==
    /\ last.op = "transition" /\ Len(last.invoked) = 1
    /\ last.invoked[1].call.cb = Returns("BadUserAccessDenied")
    /\ last.status = "BadUserAccessDenied"
    /\ ~ReadId(nodes[last.id], VarOf(last.kind))

\* C5: a dispatch whose user callback throws returns a non-good status to the
\* runtime; the exception does not leave the dispatch and the host keeps running.
C5_ExceptionConverted ==
    (last.op \in DispatchOps /\ \E f \in InvokedFns : f.tag = "throws")
    => /\ last.exit = "ok"
       /\ isBad(last.status)
       /\ host = "running"

(***************************************************************************)
(* Properties of the On/Off condition (checked under SpecOnOff).           *)
(***************************************************************************)
SetActiveDone(active) ==
    last.op = "setActive" /\ last.active = active /\ last.exit = "ok"

\* C6: after setActive(source, true) followed (with any operations in between)
\* by a successful setActive(source, false), ActiveState/Id, AckedState/Id,
\* ConfirmedState/Id and Retain are all false.
C6_ResetLaw ==
    (SetActiveDone(FALSE) /\ last.wasActivated)
    => LET n == nodes[last.id] IN
       ~n.ActiveState /\ ~n.AckedState /\ ~n.ConfirmedState /\ ~n.Retain

C6_Witness ==
    /\ SetActiveDone(FALSE) /\ last.wasActivated
    /\ last.pre.ActiveState /\ last.pre.AckedState /\ last.pre.ConfirmedState
    /\ ~nodes[last.id].AckedState /\ ~nodes[last.id].ConfirmedState

\* C7 (as claimed): in every reachable state of an On/Off condition,
\* ActiveState/Id = false implies AckedState/Id = false and ConfirmedState/Id = false.
C7_InactiveNeverAcked ==
    \A o \in Objs :
        (objs[o].state = "alive" /\ objs[o].onoff)
        => LET n == nodes[objs[o].id] IN
           ~n.ActiveState => (~n.AckedState /\ ~n.ConfirmedState)

\* C7 (amended): whenever the condition re-enters Inactive through a successful
\* setActive(source, false), whatever made it active or acknowledged before,
\* ActiveState/Id, AckedState/Id and ConfirmedState/Id are false afterwards.
C7_InactiveAfterSetActiveFalse ==
    SetActiveDone(FALSE)
    => LET n == nodes[last.id] IN
       ~n.ActiveState /\ ~n.AckedState /\ ~n.ConfirmedState

C7_Witness ==
    /\ SetActiveDone(FALSE) /\ ~last.wasActivated
    /\ last.pre.ActiveState /\ last.pre.ConfirmedState
    /\ ~nodes[last.id].ActiveState /\ ~nodes[last.id].ConfirmedState

\* C8 (as claimed): the number of events published equals the number of
\* changes of the condition between Inactive and Active made by setActive calls.
C8_EventPerStateChange ==
    events = hist.changes

\* C8 (amended): every setActive call that completes publishes exactly one
\* event, whether or not it changes the active state, and a setActive call that
\* fails publishes none; the events published are those of the completed
\* setActive calls and of the completed direct trigger calls.
C8_EventPerCompletedCall ==
    /\ events = hist.setActiveOk + hist.triggerOk
    /\ last.op = "setActive" => events = last.events0 + (IF last.exit = "ok" THEN 1 ELSE 0)

C8_Witness ==
    /\ SetActiveDone(TRUE)
    /\ hist.setActiveOk = 2 /\ events = 2 /\ hist.changes = 1

CallShape(c) == <<c.api, IF c.api = "trigger" THEN "" ELSE c.name, c.property>>
CallShapes(calls) == [i \in 1..Len(calls) |-> CallShape(calls[i])]
HeadWrites ==
    << <<"setField", "Message", "">>, <<"setField", "Time", "">>,
       <<"setField", "Retain", "">>, <<"setVariableField", "ActiveState", "Id">> >>
ResetWrites ==
    << <<"setVariableField", "AckedState", "Id">>,
       <<"setVariableField", "ConfirmedState", "Id">> >>
TriggerLast == << <<"trigger", "", "">> >>

\* C9: a successful setActive(source, active) calls, in this order, the writes of
\* Message, Time, Retain (= active), ActiveState/Id (= active), then only when
\* active is false AckedState/Id = false and ConfirmedState/Id = false, then
\* trigger once, which publishes one event; a setField or setVariableField call
\* and the constructor publish no event.
C9_WriteOrderThenTrigger ==
    /\ SetActiveDone(TRUE) =>
          /\ CallShapes(last.calls) = HeadWrites \o TriggerLast
          /\ last.calls[3].value = VBool(TRUE) /\ last.calls[4].value = VBool(TRUE)
          /\ events = last.events0 + 1
    /\ SetActiveDone(FALSE) =>
          /\ CallShapes(last.calls) = HeadWrites \o ResetWrites \o TriggerLast
          /\ \A i \in 3..6 : last.calls[i].value = VBool(FALSE)
          /\ events = last.events0 + 1
    /\ last.op \in {"setField", "setVariableField", "OnOffCondition"} =>
          /\ events = last.events0
          /\ \A i \in 1..Len(last.calls) : last.calls[i].api # "trigger"

C9_Witness ==
    /\ SetActiveDone(FALSE)
    /\ Len(last.calls) = 7 /\ last.calls[7].api = "trigger"
    /\ last.pre.ActiveState
    /\ events = last.events0 + 1

\* C10: setActive writes as Message the explicit message when it is non-empty,
\* otherwise "Alarm active" for active = true and "Alarm inactive" for active =
\* false; after a successful call that is the value of the Message field.
C10_Expected ==
    IF last.message # "" THEN last.message
    ELSE IF last.active THEN "Alarm active" ELSE "Alarm inactive"

C10_MessageChoice ==
    (last.op = "setActive" /\ Len(last.calls) >= 1)
    => /\ last.calls[1].name = "Message"
       /\ last.calls[1].value = VText(C10_Expected)
       /\ last.exit = "ok" => nodes[last.id].Message = C10_Expected

C10_Witness ==
    /\ SetActiveDone(TRUE) /\ last.message = ""
    /\ nodes[last.id].Message = "Alarm active"

\* C11: a successful construction of an On/Off condition creates the node and
\* then makes exactly four writes in this order: EnabledState/Id = true,
\* Severity = initialSeverity, Message = "Alarm inactive", Retain = false; right
\* after it the node holds these values and no event was published.
C11_ConstructorDefaults ==
    (last.op = "OnOffCondition" /\ last.exit = "ok")
    => /\ NodeExists(nodes, last.id)
       /\ objs[last.obj].state = "alive" /\ objs[last.obj].id = last.id
       /\ last.calls = << [api |-> "setVariableField", name |-> "EnabledState",
                            property |-> "Id", value |-> VBool(TRUE)],
                           [api |-> "setField", name |-> "Severity",
                            property |-> "", value |-> VNum(last.severity)],
                           [api |-> "setField", name |-> "Message",
                            property |-> "", value |-> VText("Alarm inactive")],
                           [api |-> "setField", name |-> "Retain",
                            property |-> "", value |-> VBool(FALSE)] >>
       /\ nodes[last.id].EnabledState
       /\ nodes[last.id].Severity = last.severity
       /\ nodes[last.id].Message = "Alarm inactive"
       /\ ~nodes[last.id].Retain
       /\ ~nodes[last.id].ActiveState
       /\ events = last.events0

C11_Witness ==
    /\ last.op = "OnOffCondition" /\ last.exit = "ok"
    /\ last.severity = 65535
    /\ nodes[last.id].Severity = 65535
    /\ nodes[last.id].EnabledState
    /\ nodes[last.id].Message = "Alarm inactive"

\* C12: destroying an owning Condition whose id is not null asks the runtime
\* for the deletion of its node exactly once; this is also what happens to the
\* base Condition when a default-field write of the On/Off constructor fails
\* after the node was created.
C12_OwningDestroyDeletesOnce ==
    /\ (last.op = "destroy" /\ last.owns /\ last.id # NullId)
          => last.deletes = <<last.id>>
    /\ (last.op = "OnOffCondition" /\ last.id # NullId /\ last.exit = "BadStatus")
          => last.deletes = <<last.id>>

C12_Witness ==
    /\ last.op = "OnOffCondition" /\ last.exit = "BadStatus"
    /\ last.id # NullId /\ Len(last.calls) = 3
    /\ last.deletes = <<last.id>> /\ last.delStatus = Good
    /\ ~NodeExists(nodes, last.id)

C12_WitnessDestroy ==
    /\ last.op = "destroy" /\ last.owns /\ last.existed
    /\ last.deletes = <<last.id>> /\ last.delStatus = Good
    /\ ~NodeExists(nodes, last.id)

\* C13: no operation of a Condition that wraps an existing id, or of a copy
\* of one, asks the runtime for a node deletion; in particular the node it
\* refers to is still there after the value was released or destroyed.
C13_BorrowedNeverDeletes ==
    /\ last.borrowed => (~last.owns /\ last.deletes = <<>>)
    /\ (last.borrowed /\ last.existed) => NodeExists(nodes, last.id)
    /\ last.deletes # <<>> => (last.op \in {"destroy", "OnOffCondition"} /\ last.owns)
    /\ \A o \in hist.borrowed : ~objs[o].owns

C13_Witness ==
    /\ last.op = "destroy" /\ last.borrowed /\ last.existed
    /\ last.id # NullId /\ last.deletes = <<>>
    /\ NodeExists(nodes, last.id)
    /\ \E o \in Objs : objs[o].state = "alive" /\ o \in hist.borrowed

\* C14: release() returns the id the value held and leaves it with the null
\* id; it asks the runtime for nothing, so the node stays; destroying a value
\* whose id is null deletes nothing; releasing it again returns the null id.
C14_ReleaseLaw ==
    /\ last.op = "release" =>
          /\ last.returned = last.id
          /\ objs[last.obj].state = "alive"
          /\ objs[last.obj].id = NullId
          /\ objs[last.obj].owns = last.owns
          /\ last.deletes = <<>>
          /\ last.existed => NodeExists(nodes, last.id)
    /\ (last.op = "destroy" /\ last.id = NullId) => last.deletes = <<>>

C14_Witness ==
    /\ last.op = "release" /\ last.owns /\ last.existed
    /\ last.returned = last.id /\ last.id # NullId
    /\ NodeExists(nodes, last.id)

C14_WitnessSecondRelease ==
    /\ last.op = "release" /\ last.owns
    /\ last.id = NullId /\ last.returned = NullId

C14_WitnessDestroyReleased ==
    /\ last.op = "destroy" /\ last.owns /\ last.id = NullId
    /\ last.deletes = <<>>
    /\ \E n \in NodeIds : NodeExists(nodes, n)

\* C15: the destruction of a Condition always completes normally, whatever
\* status the runtime returns for the deletion.
C15_DestructorNeverThrows ==
    last.op = "destroy" => (last.exit = "ok" /\ objs[last.obj].state = "none")

C15_Witness ==
    /\ last.op = "destroy" /\ last.exit = "ok"
    /\ last.deletes = <<last.id>>
    /\ isBad(last.delStatus)

\* C16: every activation stores identityType and isAdmin for the session:
\* the type of the token ("Unknown" for a token of no known type), and
\* isAdmin = true exactly for the user name "admin" and for every X509 and
\* Issued token.
C16_ExpectedAdmin ==
    \/ (last.token.type = "UserName" /\ last.token.userName = "admin")
    \/ last.token.type \in {"X509", "Issued"}

C16_ExpectedType ==
    IF last.token.type \in {"Anonymous", "UserName", "X509", "Issued"}
    THEN last.token.type ELSE "Unknown"

C16_IdentityPolicy ==
    last.op = "activateSession"
    => /\ attrs[last.session]["identityType"] = VString(C16_ExpectedType)
       /\ attrs[last.session]["isAdmin"] = VBool(C16_ExpectedAdmin)
       /\ SetSessionAttributeCall("identityType", VString(C16_ExpectedType))
              \in {last.calls[i] : i \in 1..Len(last.calls)}
       /\ SetSessionAttributeCall("isAdmin", VBool(C16_ExpectedAdmin))
              \in {last.calls[i] : i \in 1..Len(last.calls)}

C16_Witness ==
    /\ last.op = "activateSession"
    /\ last.token.type = "X509" /\ last.token.size = 0
    /\ last.annotated
    /\ attrs[last.session]["isAdmin"] = VBool(TRUE)
    /\ attrs[last.session]["userName"] = VString("guest")

C16_WitnessNotAdmin ==
    /\ last.op = "activateSession"
    /\ last.token.type = "UserName" /\ last.token.userName = "Admin"
    /\ attrs[last.session]["isAdmin"] = VBool(FALSE)

\* C17: activateSession returns the verdict of the default access control
\* unchanged; identityType and isAdmin are stored before the default access
\* control is asked, which is the last thing done, so they are in the store
\* also when the session is rejected.
C17_AnnotateThenDelegate ==
    last.op = "activateSession"
    => /\ last.status = last.verdict
       /\ Len(last.calls) >= 3
       /\ last.calls[Len(last.calls)] = DelegateCall("AccessControlDefault::activateSession")
       /\ last.calls[Len(last.calls) - 1].key = "isAdmin"
       /\ last.calls[Len(last.calls) - 2].key = "identityType"
       /\ \A i \in 1..(Len(last.calls) - 1) : last.calls[i].api = "setSessionAttribute"
       /\ Annotated(attrs[last.session])

C17_Witness ==
    /\ last.op = "activateSession" /\ ~last.annotated
    /\ last.verdict = "BadUserAccessDenied" /\ last.status = "BadUserAccessDenied"
    /\ last.token.type = "Issued"
    /\ attrs[last.session]["identityType"] = VString("Issued")
    /\ attrs[last.session]["isAdmin"] = VBool(TRUE)

\* C18: the access level of a session is read+write when its isAdmin
\* attribute is true and read-only when it is false or when the session has
\* not been annotated; the check never fails.
C18_AccessLevelTotal ==
    last.op = "getUserAccessLevel"
    => /\ last.exit = "ok"
       /\ last.level = IF attrs[last.session]["isAdmin"] = VBool(TRUE)
                       THEN ReadWrite ELSE ReadOnly

\* What holds of the check: for an annotated session it returns the level
\* of its isAdmin attribute.
C18_AnnotatedLevel ==
    (last.op = "getUserAccessLevel" /\ last.annotated)
    => /\ last.exit = "ok"
       /\ last.level = IF attrs[last.session]["isAdmin"] = VBool(TRUE)
                       THEN ReadWrite ELSE ReadOnly

C18_WitnessAnnotated ==
    /\ last.op = "getUserAccessLevel" /\ last.annotated
    /\ last.level = ReadOnly

\* C19: a transition callback that calls setField, setVariableField, trigger
\* or setActive on its own condition is never kept waiting by the core: the
\* calls of its body all run and have their effect before the callback
\* returns, and the dispatch then ends with the status of the callback.  (A
\* call of the body that the runtime refuses throws inside the callback.)
C19_Body == last.invoked[1].call.cb.tag

C19_ReentryCompletes ==
    (/\ last.op = "reentrantTransition"
     /\ last.invoked # << >>
     /\ last.invoked[1].call.cb \in ReentrantFns)
    => /\ last.nestedExit # "deadlock" /\ last.exit # "deadlock"
       /\ last.calls # << >>
       /\ last.nestedExit = "ok" =>
             /\ last.exit = "ok"
             /\ last.status = last.invoked[1].call.cb.status
             /\ Len(last.calls) = IF C19_Body = "setActive" THEN 7 ELSE 1
             /\ last.calls[Len(last.calls)].api =
                    IF C19_Body = "setActive" THEN "trigger" ELSE C19_Body
             /\ C19_Body \in {"trigger", "setActive"} => events = last.events0 + 1
             /\ C19_Body = "setField" => nodes[last.id].Retain
             /\ C19_Body = "setVariableField" => nodes[last.id].ActiveState
             /\ ReadId(nodes[last.id], VarOf(last.kind))
                    = (last.status = Good \/ (last.preValue /\ C19_Body # "setActive"))

C19_Witness ==
    /\ last.op = "reentrantTransition" /\ last.kind = "enteringAcked"
    /\ Len(last.invoked) = 2
    /\ last.invoked[1].call.cb = Reenters("setVariableField", Good)
    /\ last.invoked[2].call.cb = Returns(Good)
    /\ last.exit = "ok" /\ last.status = Good
    /\ nodes[last.id].ActiveState /\ nodes[last.id].AckedState

C19_WitnessSetActive ==
    /\ last.op = "reentrantTransition" /\ last.kind = "enteringAcked"
    /\ last.invoked # << >>
    /\ last.invoked[1].call.cb = Reenters("setActive", "BadUserAccessDenied")
    /\ last.exit = "ok" /\ last.status = "BadUserAccessDenied"
    /\ Len(last.calls) = 7 /\ events = last.events0 + 1

\* C20: a registry entry appears only through a registration for its
\* condition id, and no step removes an entry or empties a slot; releasing or
\* destroying a Condition, which deletes its node, leaves the registry as it is.
C20_RegistryOnlyGrows ==
    [][/\ \A i \in Ids :
            /\ registry[i].present => registry'[i].present
            /\ \A k \in Kinds : registry[i][k].set => registry'[i][k].set
            /\ (~registry[i].present /\ registry'[i].present)
                  => (last'.op \in RegOps /\ last'.id = i)
       /\ last'.op \in {"destroy", "release", "OnOffCondition"} => registry' = registry
      ]_vars

C20_Witness ==
    /\ last.op = "destroy" /\ last.owns /\ last.existed
    /\ last.deletes = <<last.id>>
    /\ ~NodeExists(nodes, last.id)
    /\ registry[last.id].present
    /\ registry[last.id].enteringEnabled.set
    /\ ~hooks[last.id]["enteringEnabled"].installed

(***************************************************************************)
(* Properties of the diagnostic record, of the arguments of a callback and *)
(* of the independence of slots (checked under SpecDispatch).              *)
(***************************************************************************)
\* C21: every dispatch writes exactly one diagnostic record; the record names
\* the two-state variable of the transition kind and the display name of the
\* condition node (empty when the node cannot be read), and it is written
\* before any user callback is invoked, also when the condition has no
\* registry entry or its slot holds no callback.
C21_OneRecordBeforeCallback ==
    (last.op \in DispatchOps /\ last.hooked)
    => /\ Len(last.log) = 1
       /\ last.log[1].state = VarOf(last.kind)
       /\ last.log[1].condition =
              (IF NodeExists(nodes, last.id) THEN DisplayNameOf(last.id) ELSE "")
       /\ Len(last.trace) = 1 + Len(last.invoked)
       /\ last.trace[1] = "log"
       /\ \A i \in 2..Len(last.trace) : last.trace[i] = "invoke"

C21_Witness ==
    /\ last.op = "transition" /\ last.hooked
    /\ Len(last.invoked) = 1
    /\ last.trace = <<"log", "invoke">>
    /\ last.log = <<LogLine("ActiveState", "Alarm1")>>

C21_WitnessNoEntry ==
    /\ last.op = "dispatch" /\ ~last.hasEntry
    /\ last.invoked = << >>
    /\ last.trace = <<"log">>
    /\ last.log = <<LogLine("AckedState", "")>>

C21_WitnessEmptySlot ==
    /\ last.op = "transition" /\ last.hooked
    /\ last.hasEntry /\ last.slot.cb = EmptyFn
    /\ last.invoked = << >>
    /\ last.log = <<LogLine("EnabledState", "Alarm1")>>

\* C22: the callback a dispatch invokes receives the source node and the
\* remove-branch flag of the most recent registration for its condition and
\* kind, and a session handle bound to the session id the runtime passed, or
\* to the null id when the runtime passed none.
C22_CallbackArguments ==
    (last.op \in DispatchOps /\ last.invoked # << >>)
    => LET c == last.invoked[1].call IN
       /\ Len(last.invoked) = 1
       /\ c.cb = hist.latest[last.id][last.kind]
       /\ c.source = hist.latestSource[last.id][last.kind]
       /\ c.removeBranch = hist.latestRemoveBranch[last.id][last.kind]
       /\ c.session = (IF last.session = NoSession THEN NullId ELSE last.session)

C22_Witness ==
    /\ last.op = "transition" /\ last.kind = "enteringActive"
    /\ hist.rearmed[last.id][last.kind]
    /\ last.session = "s1"
    /\ last.invoked # << >>
    /\ last.invoked[1].call.source = "src2"
    /\ last.invoked[1].call.removeBranch
    /\ last.invoked[1].call.session = "s1"

C22_WitnessNoSession ==
    /\ last.op = "transition" /\ last.session = NoSession
    /\ last.invoked # << >>
    /\ last.invoked[1].call.session = NullId
    /\ last.invoked[1].call.source = "src1"

\* The slot an invocation was read from has the callback, source node and
\* flag that the invocation carries.
ReadFrom(call, slot) ==
    slot.set /\ slot.cb = call.cb /\ slot.source = call.source
             /\ slot.removeBranch = call.removeBranch

C23_SlotsHoldTheirRegistration ==
    \A i \in Ids, k \in Kinds :
        hist.latest[i][k] # EmptyFn
        => /\ registry[i].present
           /\ registry[i][k] = emplaceSlot(hist.latestSource[i][k],
                                           hist.latestRemoveBranch[i][k],
                                           hist.latest[i][k])

C23_DispatchReadsOwnSlot ==
    last.op \in DispatchOps
    => \A j \in 1..Len(last.invoked) :
          /\ ReadFrom(last.invoked[j].call, registry[last.id][last.kind])
          /\ \A i \in Ids, k \in Kinds :
                ReadFrom(last.invoked[j].call, registry[i][k])
                => (i = last.id /\ k = last.kind)

C23_RegistrationFrame ==
    last'.op \in RegOps
    => /\ \A i \in Ids : i # last'.id => registry'[i] = registry[i]
       /\ \A k \in Kinds : k # last'.kind =>
             registry'[last'.id][k] = registry[last'.id][k]
       /\ objs' = objs

\* C23: slots are independent per (condition, kind).  A registration for kind
\* K on condition C changes neither the other three slots of C nor any slot of
\* another condition, and leaves the Condition value as it is, so that
\* chained registrations fill all their slots: every slot registered so far
\* holds what was registered for it.  A dispatch of kind K on C invokes only
\* what the slot (C, K) holds, never the callback of another kind or of
\* another condition.
C23_SlotsIndependent ==
    /\ [](C23_SlotsHoldTheirRegistration /\ C23_DispatchReadsOwnSlot)
    /\ [][C23_RegistrationFrame]_vars

C23_Witness ==
    /\ \A k \in Kinds : registry["n1"][k].set /\ registry["n1"][k].cb = SlotFn(k)
    /\ registry["n2"].enteringAcked.set /\ registry["n2"].enteringConfirmed.set
    /\ last.op = "transition" /\ last.id = "n1" /\ last.kind = "enteringAcked"
    /\ Len(last.invoked) = 1
    /\ last.invoked[1].call.cb = Returns("BadUserAccessDenied")
    /\ last.invoked[1].call.source = "src1"
    /\ ~last.invoked[1].call.removeBranch
    /\ last.status = "BadUserAccessDenied"

(***************************************************************************)
(* Properties of copies and moves of a Condition (checked under            *)
(* SpecLifecycle).                                                         *)
(***************************************************************************)
\* C24: whatever sequence of copy, move, release and destroy is applied to
\* the Condition values that refer to a created node, the deletion of that
\* node is requested at most once.
C24_DeleteAtMostOnce ==
    \A n \in NodeIds : hist.deleteRequests[n] <= 1

(***************************************************************************)
(* Properties of a failing setActive (checked under SpecOnOff).            *)
(***************************************************************************)
C25_Plan == IF last.active
            THEN HeadWrites \o TriggerLast
            ELSE HeadWrites \o ResetWrites \o TriggerLast

\* The value a completed write of setActive leaves in the node.
C25_Kept(j) ==
    LET n == nodes[last.id] IN
    CASE j = 1 -> n.Message = C10_Expected
      [] j = 2 -> n.Time = last.calls[2].value.n
      [] j = 3 -> n.Retain = last.active
      [] j = 4 -> n.ActiveState = last.active
      [] j = 5 -> ~n.AckedState
      [] j = 6 -> ~n.ConfirmedState

\* C25: when the runtime refuses one of the field writes of setActive, the
\* call ends at that write with the refusal's status thrown to its caller:
\* the calls made are exactly those up to the refused write, no event is
\* published, and every write made before it keeps its effect.
C25_FailureStopsSequence ==
    (/\ last.op = "setActive"
     /\ last.failAt \in 1..(Len(C25_Plan) - 1))
    => /\ last.exit = "BadStatus"
       /\ last.status = "BadInternalError"
       /\ CallShapes(last.calls) = SubSeq(C25_Plan, 1, last.failAt)
       /\ \A i \in 1..Len(last.calls) : last.calls[i].api # "trigger"
       /\ events = last.events0
       /\ \A j \in 1..(last.failAt - 1) : C25_Kept(j)

C25_Witness ==
    /\ last.op = "setActive" /\ last.active /\ last.failAt = 4
    /\ last.exit = "BadStatus"
    /\ ~last.pre.Retain /\ ~last.pre.ActiveState
    /\ nodes[last.id].Retain /\ ~nodes[last.id].ActiveState
    /\ nodes[last.id].Message = "Alarm active"
    /\ events = last.events0

C25_WitnessReset ==
    /\ last.op = "setActive" /\ ~last.active /\ last.failAt = 6
    /\ last.exit = "BadStatus"
    /\ last.pre.ActiveState /\ last.pre.AckedState /\ last.pre.ConfirmedState
    /\ ~nodes[last.id].ActiveState /\ ~nodes[last.id].AckedState
    /\ nodes[last.id].ConfirmedState

(***************************************************************************)
(* Properties of a failing registration (checked under SpecDispatch).      *)
(***************************************************************************)
\* C26: a registration stores its slot before it asks the runtime for the
\* hook.  So wherever a hook is installed the registry holds a slot for the
\* condition and kind, and a registration the runtime rejects throws to its
\* caller with the runtime's status while the slot it stored stays, in place
\* of whatever callback was registered for that kind before.
C26_SlotStoredBeforeInstall ==
    /\ \A n \in NodeIds, k \in Kinds :
          hooks[n][k].installed => (registry[n].present /\ registry[n][k].set)
    /\ (last.op \in RegOps /\ isBad(last.status))
       => /\ last.exit = "BadStatus"
          /\ registry[last.id].present
          /\ registry[last.id][last.kind].set
          /\ registry[last.id][last.kind].cb = last.cb
          /\ hist.latest[last.id][last.kind] = last.cb

C26_Witness ==
    /\ last.op = "onEnabled" /\ last.exit = "BadStatus"
    /\ last.status = "BadInternalError"
    /\ hist.overwritten[last.id]["enteringEnabled"]
    /\ last.cb = Returns("BadUserAccessDenied")
    /\ registry[last.id].enteringEnabled.cb = Returns("BadUserAccessDenied")
    /\ hooks[last.id]["enteringEnabled"].installed

C26_WitnessNoHook ==
    /\ last.op = "onActive" /\ last.exit = "BadStatus"
    /\ registry[last.id].enteringActive.set
    /\ ~hooks[last.id]["enteringActive"].installed

(***************************************************************************)
(* Properties of a running callback (checked under SpecConcurrent).        *)
(***************************************************************************)
\* C27: while the callback that a dispatch called for a condition and kind
\* has not returned, the registry slot for that condition and kind is the one
\* it was called from, whoever registers in the meantime.
C27_SlotStableDuringCallback ==
    running.active => registry[running.id][running.kind] = running.slot

====
